---- MODULE Spec2Model ----
(***************************************************************************)
(* Background script of the papers-feed extension (the part of            *)
(* src/extension/source-integration/nber/index.ts that starts at the      *)
(* "background.ts" marker): process-wide credentials, the paper manager    *)
(* and session service built from them, the runtime message listener with *)
(* its handlers, and the storage-change listener.                         *)
(*                                                                         *)
(* JavaScript strings are sequences of one-character strings, so that      *)
(* trim, toLowerCase, split, startsWith, slice and the date pattern are    *)
(* computed the way the code computes them.  Other JavaScript values are   *)
(* tagged records.                                                         *)
(***************************************************************************)
EXTENDS Naturals, Sequences, FiniteSets, TLC

VARIABLES
    sourceManager,   \* let sourceManager: the registered integrations, in order
    githubToken,     \* let githubToken
    githubRepo,      \* let githubRepo
    paperManager,    \* let paperManager: PaperManager | null
    sessionService,  \* let sessionService: SessionService
    inflight,        \* handlers suspended at an await, one per slot
    last             \* what the current event-loop turn completed, or NoExchange

vars == <<sourceManager, githubToken, githubRepo, paperManager, sessionService,
          inflight, last>>

---------------------------------------------------------------------------
(* JavaScript values *)

Undefined == [t |-> "undefined"]
Null == [t |-> "null"]
NumberValue == [t |-> "number"]
JsString(s) == [t |-> "string", v |-> s]
IsString(x) == x.t = "string"

(* Characters *)

UpperCase ==
    <<"A","B","C","D","E","F","G","H","I","J","K","L","M",
      "N","O","P","Q","R","S","T","U","V","W","X","Y","Z">>
LowerCase ==
    <<"a","b","c","d","e","f","g","h","i","j","k","l","m",
      "n","o","p","q","r","s","t","u","v","w","x","y","z">>
Digits == {"0","1","2","3","4","5","6","7","8","9"}
WhiteSpace == {" ", "\t", "\n"}

UpperToLower ==
    [c \in {UpperCase[i] : i \in DOMAIN UpperCase} |->
        LowerCase[CHOOSE i \in DOMAIN UpperCase : UpperCase[i] = c]]

LowerChar(c) == IF c \in DOMAIN UpperToLower THEN UpperToLower[c] ELSE c

(* String.prototype methods used by the background script *)

ToLowerCase(s) == [i \in DOMAIN s |-> LowerChar(s[i])]

StartsWith(s, p) ==
    /\ Len(p) <= Len(s)
    /\ \A i \in 1..Len(p) : s[i] = p[i]

Slice(s, n) == IF n >= Len(s) THEN <<>> ELSE SubSeq(s, n + 1, Len(s))

RECURSIVE TrimStart(_)
TrimStart(s) ==
    IF s # <<>> /\ Head(s) \in WhiteSpace THEN TrimStart(Tail(s)) ELSE s

RECURSIVE TrimEnd(_)
TrimEnd(s) ==
    IF s # <<>> /\ s[Len(s)] \in WhiteSpace
    THEN TrimEnd(SubSeq(s, 1, Len(s) - 1))
    ELSE s

Trim(s) == TrimEnd(TrimStart(s))

\* s.split(sep) for a one-character separator: the pieces between separators
RECURSIVE SplitFrom(_, _, _)
SplitFrom(s, sep, piece) ==
    IF s = <<>> THEN <<piece>>
    ELSE IF Head(s) = sep THEN <<piece>> \o SplitFrom(Tail(s), sep, <<>>)
    ELSE SplitFrom(Tail(s), sep, Append(piece, Head(s)))

Split(s, sep) == SplitFrom(s, sep, <<>>)

\* the index of the first character of s that is in stop, or Len(s) + 1
RECURSIVE IndexOfAny(_, _, _)
IndexOfAny(s, stop, i) ==
    IF i > Len(s) THEN Len(s) + 1
    ELSE IF s[i] \in stop THEN i
    ELSE IndexOfAny(s, stop, i + 1)

---------------------------------------------------------------------------
(* const READ_DATE_PATTERN = /^\d{4}-\d{2}-\d{2}$/ and its test() *)

READ_DATE_PATTERN == <<"d","d","d","d","-","d","d","-","d","d">>

PatternTestBroken(pattern, s) ==
    /\ Len(s) >= Len(pattern)
    /\ \A i \in 1..Len(pattern) : s[i] \in Digits \/ s[i] = "-"

PatternTest(pattern, s) ==
    /\ Len(s) = Len(pattern)
    /\ \A i \in 1..Len(pattern) :
          IF pattern[i] = "d" THEN s[i] \in Digits ELSE s[i] = pattern[i]

---------------------------------------------------------------------------
(* new URL(url): scheme "http:" or "https:" followed by "//", then the     *)
(* authority up to the first "/", "?" or "#" (the host is its part before  *)
(* a ":" port), then the path up to "?" or "#".  An input without such a   *)
(* scheme, or with an empty host, throws.  The parser lower-cases the host *)
(* and gives an empty path as "/".                                         *)

SchemeHttps == <<"h","t","t","p","s",":","/","/">>
SchemeHttp == <<"h","t","t","p",":","/","/">>

UrlAfterScheme(u) ==
    IF StartsWith(u, SchemeHttps) THEN Slice(u, Len(SchemeHttps))
    ELSE IF StartsWith(u, SchemeHttp) THEN Slice(u, Len(SchemeHttp))
    ELSE <<>>

ParseUrl(u) ==
    LET rest == UrlAfterScheme(u)
        authorityEnd == IndexOfAny(rest, {"/", "?", "#"}, 1)
        authority == SubSeq(rest, 1, authorityEnd - 1)
        host == SubSeq(authority, 1, IndexOfAny(authority, {":"}, 1) - 1)
        afterHost == Slice(rest, authorityEnd - 1)
        pathEnd == IndexOfAny(afterHost, {"?", "#"}, 1)
        path == SubSeq(afterHost, 1, pathEnd - 1)
    IN  IF host = <<>>
        THEN [ok |-> FALSE, hostname |-> <<>>, pathname |-> <<>>]
        ELSE [ok |-> TRUE,
              hostname |-> ToLowerCase(host),
              pathname |-> IF path = <<>> THEN <<"/">> ELSE path]

---------------------------------------------------------------------------
(* function isTrustedFrontendUrl(url) *)

GitHubIo == <<".","g","i","t","h","u","b",".","i","o">>
Localhost == <<"l","o","c","a","l","h","o","s","t">>
Loopback == <<"1","2","7",".","0",".","0",".","1">>

IsTrustedPathPrefixOnly(url) ==
    /\ IsString(url) /\ url.v # <<>>
    /\ githubRepo # <<>>
    /\ LET parsedUrl == ParseUrl(url.v)
           parts == Split(githubRepo, "/")
       IN  /\ parsedUrl.ok
           /\ Len(parts) >= 2 /\ parts[1] # <<>> /\ parts[2] # <<>>
           /\ LET host == ToLowerCase(parsedUrl.hostname)
                  path == ToLowerCase(parsedUrl.pathname)
                  repoPath == <<"/">> \o ToLowerCase(parts[2])
                  expectedHost == ToLowerCase(parts[1]) \o GitHubIo
              IN  \/ host = expectedHost /\ StartsWith(path, repoPath)
                  \/ host = Localhost
                  \/ host = Loopback

isTrustedFrontendUrl(url) ==
    /\ IsString(url) /\ url.v # <<>>             \* if (!url ...) return false
    /\ githubRepo # <<>>                         \* if (... !githubRepo) return false
    /\ LET parsedUrl == ParseUrl(url.v)
           parts == Split(githubRepo, "/")
       IN  /\ parsedUrl.ok                       \* new URL throws: catch, false
           /\ Len(parts) >= 2 /\ parts[1] # <<>> /\ parts[2] # <<>>
           /\ LET owner == parts[1]
                  repo == parts[2]
                  host == ToLowerCase(parsedUrl.hostname)
                  path == ToLowerCase(parsedUrl.pathname)
                  repoPath == <<"/">> \o ToLowerCase(repo)
                  expectedHost == ToLowerCase(owner) \o GitHubIo
                  isGitHubPagesPath ==
                      /\ host = expectedHost
                      /\ \/ path = repoPath
                         \/ path = repoPath \o <<"/">>
                         \/ StartsWith(path, repoPath \o <<"/">>)
                  isLocalDev == host = Localhost \/ host = Loopback
              IN  isGitHubPagesPath \/ isLocalDev

---------------------------------------------------------------------------
(* function toInteractionObjectId(paperKey) *)

PaperColon == <<"p","a","p","e","r",":">>
PaperDot == <<"p","a","p","e","r",".">>
InteractionsColon == <<"i","n","t","e","r","a","c","t","i","o","n","s",":">>
InteractionsDot == <<"i","n","t","e","r","a","c","t","i","o","n","s",".">>

ToInteractionObjectIdOneStyle(paperKey) ==
    IF StartsWith(paperKey, PaperColon)
    THEN JsString(InteractionsColon \o Slice(paperKey, Len(PaperColon)))
    ELSE IF StartsWith(paperKey, PaperDot)
    THEN JsString(InteractionsColon \o Slice(paperKey, Len(PaperDot)))
    ELSE Null

toInteractionObjectId(paperKey) ==
    IF StartsWith(paperKey, PaperColon)
    THEN JsString(InteractionsColon \o Slice(paperKey, Len(PaperColon)))
    ELSE IF StartsWith(paperKey, PaperDot)
    THEN JsString(InteractionsDot \o Slice(paperKey, Len(PaperDot)))
    ELSE Null

---------------------------------------------------------------------------
(* The registry of source integrations and the source manager *)

\* registry.ts: the integrations in registration order
SourceIntegrationsMiscFirst ==
    <<"miscIntegration", "arxivIntegration", "openReviewIntegration",
      "natureIntegration", "pnasIntegration", "aclAnthologyIntegration",
      "ieeeIntegration", "nberIntegration", "newspapersIntegration">>

sourceIntegrations ==
    <<"arxivIntegration", "openReviewIntegration", "natureIntegration",
      "pnasIntegration", "aclAnthologyIntegration", "ieeeIntegration",
      "nberIntegration", "newspapersIntegration", "miscIntegration">>

\* SourceIntegrationManager.registerSource: the integration joins the end
registerSource(manager, integration) == Append(manager, integration)

RECURSIVE RegisterFrom(_, _)
RegisterFrom(manager, i) ==
    IF i > Len(sourceIntegrations) THEN manager
    ELSE RegisterFrom(registerSource(manager, sourceIntegrations[i]), i + 1)

\* initializeSources(): a new manager, every integration of the registry
\* registered in turn
initializeSources == RegisterFrom(<<>>, 1)

---------------------------------------------------------------------------
(* Regular expressions of the integrations.  A pattern is a sequence of     *)
(* tokens matched left to right: a literal, or a run of characters of a     *)
(* class.  In every pattern below a run is followed by a character outside  *)
(* its class or by nothing, so the longest run is the one the regular       *)
(* expression engine settles on.                                            *)

UpperSet == {UpperCase[i] : i \in DOMAIN UpperCase}
WordChars == UpperSet \cup {LowerCase[i] : i \in DOMAIN LowerCase} \cup Digits \cup {"_"}
WordOrDash == WordChars \cup {"-"}

Lit(str) == [kind |-> "lit", str |-> str]

\* min to max characters of the class; max 0 stands for no upper limit
Rep(class, min, max) == [kind |-> "rep", class |-> class, min |-> min, max |-> max]

RECURSIVE RunEnd(_, _, _, _)
RunEnd(s, k, class, limit) ==
    IF k < limit /\ k <= Len(s) /\ s[k] \in class
    THEN RunEnd(s, k + 1, class, limit)
    ELSE k

\* the positions where the tokens from the j-th on start and end when the
\* pattern matches at position k, <<>> when it does not
RECURSIVE MatchAt(_, _, _, _)
MatchAt(s, k, pattern, j) ==
    IF j > Len(pattern) THEN <<k>>
    ELSE LET t == pattern[j]
             e == IF t.kind = "lit"
                  THEN IF /\ k + Len(t.str) - 1 <= Len(s)
                          /\ SubSeq(s, k, k + Len(t.str) - 1) = t.str
                       THEN k + Len(t.str)
                       ELSE 0
                  ELSE LET r == RunEnd(s, k, t.class,
                                       IF t.max = 0 THEN Len(s) + 1 ELSE k + t.max)
                       IN  IF r - k >= t.min THEN r ELSE 0
             rest == IF e = 0 THEN <<>> ELSE MatchAt(s, e, pattern, j + 1)
         IN  IF rest = <<>> THEN <<>> ELSE <<k>> \o rest

\* String.prototype.match with a pattern without the g flag: the leftmost
\* match, or null
Match(s, pattern) ==
    LET starts == {k \in 1..Len(s) : MatchAt(s, k, pattern, 1) # <<>>}
    IN  IF starts = {} THEN Null
        ELSE MatchAt(s, CHOOSE k \in starts : \A m \in starts : k <= m, pattern, 1)

\* the text the tokens from..to of the pattern matched
Group(s, m, from, to) == SubSeq(s, m[from], m[to + 1] - 1)

(* NBER: /nber\.org\/papers\/(w?\d+)/ *)
NberUrlPatterns ==
    <<  <<Lit(<<"n","b","e","r",".","o","r","g","/","p","a","p","e","r","s","/">>),
          Rep({"w"}, 0, 1), Rep(Digits, 1, 0)>>  >>

NberIntegration_extractPaperId(url) ==
    LET match == Match(url, NberUrlPatterns[1])
    IN  IF match # Null THEN JsString(Group(url, match, 2, 3)) ELSE Null

(* ACL Anthology: /aclanthology\.org\/([A-Z0-9][\w.-]+)\/?/ *)
AclAnthologyUrlPatterns ==
    <<  <<Lit(<<"a","c","l","a","n","t","h","o","l","o","g","y",".","o","r","g","/">>),
          Rep(UpperSet \cup Digits, 1, 1), Rep(WordChars \cup {".", "-"}, 1, 0),
          Rep({"/"}, 0, 1)>>  >>

\* replace(/\/$/, '')
StripTrailingSlash(s) ==
    IF s # <<>> /\ s[Len(s)] = "/" THEN SubSeq(s, 1, Len(s) - 1) ELSE s

AclExtractPaperIdWholeTail(url) ==
    LET match == Match(url, AclAnthologyUrlPatterns[1])
    IN  IF match = Null THEN Null
        ELSE JsString(StripTrailingSlash(SubSeq(url, match[2], Len(url))))

AclAnthologyIntegration_extractPaperId(url) ==
    LET match == Match(url, AclAnthologyUrlPatterns[1])
    IN  IF match = Null THEN Null
        ELSE JsString(StripTrailingSlash(Group(url, match, 2, 3)))

(* IEEE Xplore: /ieeexplore\.ieee\.org\/document\/(\d+)/ *)
IeeeUrlPatterns ==
    <<  <<Lit(<<"i","e","e","e","x","p","l","o","r","e",".","i","e","e","e",".","o","r","g","/","d","o","c","u","m","e","n","t","/">>),
          Rep(Digits, 1, 0)>>  >>

IeeeIntegration_extractPaperId(url) ==
    LET match == Match(url, IeeeUrlPatterns[1])
    IN  IF match # Null THEN JsString(Group(url, match, 2, 2)) ELSE Null

(* Newspapers: NYT, New Yorker, Paris Review *)
NewspapersUrlPatterns ==
    <<  <<Lit(<<"n","y","t","i","m","e","s",".","c","o","m","/">>),
          Rep(Digits, 4, 4), Lit(<<"/">>), Rep(Digits, 2, 2), Lit(<<"/">>),
          Rep(Digits, 2, 2), Lit(<<"/">>),
          Rep(WordOrDash, 1, 0), Lit(<<"/">>), Rep(WordOrDash, 1, 0)>>,
        <<Lit(<<"n","e","w","y","o","r","k","e","r",".","c","o","m","/">>),
          Rep(WordOrDash, 1, 0), Lit(<<"/">>), Rep(WordOrDash, 1, 0), Lit(<<"/">>),
          Rep(WordOrDash, 1, 0)>>,
        <<Lit(<<"t","h","e","p","a","r","i","s","r","e","v","i","e","w",".","o","r","g","/">>),
          Rep(WordOrDash, 1, 0), Lit(<<"/">>), Rep(Digits, 1, 0), Lit(<<"/">>),
          Rep(WordOrDash, 1, 0)>>  >>

\* the integrations whose source is at hand, with their patterns
urlPatterns ==
    [aclAnthologyIntegration |-> AclAnthologyUrlPatterns,
     ieeeIntegration |-> IeeeUrlPatterns,
     nberIntegration |-> NberUrlPatterns,
     newspapersIntegration |-> NewspapersUrlPatterns]

\* BaseSourceIntegration.canHandleUrl: some pattern of the integration
\* matches.  The patterns of the other integrations are an attribute of the
\* URL: the set of those integrations that claim it.
canHandleUrl(integration, url) ==
    IF integration \in DOMAIN urlPatterns
    THEN \E i \in DOMAIN urlPatterns[integration] :
            Match(url.raw, urlPatterns[integration][i]) # Null
    ELSE integration \in url.claimedBy

\* SourceIntegrationManager: the first registered integration that can
\* handle the URL, or the catch-all
getSourceForUrl(url) ==
    LET able == {i \in DOMAIN sourceManager : canHandleUrl(sourceManager[i], url)}
    IN  IF able = {} THEN "miscIntegration"
        ELSE sourceManager[CHOOSE i \in able : \A j \in able : i <= j]

---------------------------------------------------------------------------
(* Documents and the metadata extractors.  A document is its meta elements *)
(* and its other elements, each in document order, and what the rules of   *)
(* the base extractor yield on it.                                         *)

\* <meta name|property="key" content="...">; content is what
\* getAttribute('content') returns: a string, or null without the attribute
Meta(attr, key, content) == [attr |-> attr, key |-> key, content |-> content]

\* an element with its class attribute, the class attributes of its
\* ancestors and its text content
Element(tag, class, inside, text) ==
    [tag |-> tag, class |-> class, inside |-> inside, text |-> text]

\* a || b on strings
Or(a, b) == IF a # <<>> THEN a ELSE b

\* querySelector: the first of the elements that match, or null
First(matching) == IF matching = <<>> THEN Null ELSE Head(matching)

\* MetadataExtractor.getMetaContent('meta[attr="key"]'): the content of the
\* first such element, '' when there is none or it has no content
getMetaContent(document, attr, key) ==
    LET Test(el) == el.attr = attr /\ el.key = key
        element == First(SelectSeq(document.metas, Test))
    IN  IF element # Null /\ IsString(element.content) THEN element.content.v ELSE <<>>

\* the class names of a class attribute
ClassList(class) == {name \in {Split(class, " ")[i] : i \in DOMAIN Split(class, " ")} :
                        name # <<>>}

HasClass(class, name) == name \in ClassList(class)

\* [class*="text"]
ClassContains(class, text) == Match(class, <<Lit(text)>>) # Null

RECURSIVE Join(_, _)
Join(strings, sep) ==
    IF strings = <<>> THEN <<>>
    ELSE IF Len(strings) = 1 THEN strings[1]
    ELSE strings[1] \o sep \o Join(Tail(strings), sep)

CommaSpace == <<",", " ">>

\* s.split(/[,;]/): the pieces between characters of the class
RECURSIVE SplitAnyFrom(_, _, _)
SplitAnyFrom(s, seps, piece) ==
    IF s = <<>> THEN <<piece>>
    ELSE IF Head(s) \in seps THEN <<piece>> \o SplitAnyFrom(Tail(s), seps, <<>>)
    ELSE SplitAnyFrom(Tail(s), seps, Append(piece, Head(s)))

\* .map(tag => tag.trim())
MapTrim(tokens) == [i \in DOMAIN tokens |-> Trim(tokens[i])]

\* .filter(Boolean)
FilterBoolean(tokens) == LET NotEmpty(t) == t # <<>> IN SelectSeq(tokens, NotEmpty)

\* querySelectorAll('meta[name="citation_author"]') and the forEach that
\* collects each non-empty content
CitationAuthors(document) ==
    LET IsAuthor(el) == el.attr = "name" /\ el.key = "citation_author"
        HasContent(el) == IsString(el.content) /\ el.content.v # <<>>
        tags == SelectSeq(SelectSeq(document.metas, IsAuthor), HasContent)
    IN  [i \in DOMAIN tags |-> tags[i].content.v]

(* NberMetadataExtractor *)

NberMetadataExtractor_extractTitle(document) ==
    Or(getMetaContent(document, "name", "citation_title"),
       Or(getMetaContent(document, "property", "og:title"),
          document.base.title))

NberMetadataExtractor_extractAuthors(document) ==
    LET authors == CitationAuthors(document)
    IN  IF Len(authors) > 0 THEN Join(authors, CommaSpace)
        ELSE document.base.authors

NberMetadataExtractor_extractDescription(document) ==
    Or(getMetaContent(document, "name", "citation_abstract"),
       Or(getMetaContent(document, "property", "og:description"),
          Or(getMetaContent(document, "name", "description"),
             document.base.description)))

NberMetadataExtractor_extractPublishedDate(document) ==
    Or(getMetaContent(document, "name", "citation_publication_date"),
       Or(getMetaContent(document, "name", "citation_date"),
          document.base.publishedDate))

NberMetadataExtractor_extractDoi(document) ==
    Or(getMetaContent(document, "name", "citation_doi"), document.base.doi)

NberMetadataExtractor_extractTags(document) ==
    LET keywords == getMetaContent(document, "name", "keywords")
    IN  IF keywords # <<>> THEN MapTrim(Split(keywords, ",")) ELSE <<>>

(* AclAnthologyMetadataExtractor *)

AclAnthologyMetadataExtractor_extractTitle(document) ==
    Or(getMetaContent(document, "name", "citation_title"),
       Or(getMetaContent(document, "property", "og:title"),
          document.base.title))

AclExtractAuthorsFirstOnly(document) ==
    LET authors == CitationAuthors(document)
    IN  IF Len(authors) > 0 THEN authors[1]
        ELSE document.base.authors

AclAnthologyMetadataExtractor_extractAuthors(document) ==
    LET authors == CitationAuthors(document)
    IN  IF Len(authors) > 0 THEN Join(authors, CommaSpace)
        ELSE document.base.authors

ClassAclAbstract == <<"a","c","l","-","a","b","s","t","r","a","c","t">>

AclAnthologyMetadataExtractor_extractDescription(document) ==
    LET IsAclAbstract(el) == HasClass(el.class, ClassAclAbstract)
        aclAbstract == First(SelectSeq(document.elements, IsAclAbstract))
        text == IF aclAbstract # Null THEN Trim(aclAbstract.text) ELSE <<>>
    IN  IF text # <<>> THEN text
        ELSE Or(getMetaContent(document, "name", "citation_abstract"),
                Or(getMetaContent(document, "property", "og:description"),
                   document.base.description))

AclAnthologyMetadataExtractor_extractPublishedDate(document) ==
    Or(getMetaContent(document, "name", "citation_publication_date"),
       Or(getMetaContent(document, "name", "citation_date"),
          document.base.publishedDate))

AclAnthologyMetadataExtractor_extractDoi(document) ==
    Or(getMetaContent(document, "name", "citation_doi"), document.base.doi)

AclAnthologyMetadataExtractor_extractJournalName(document) ==
    Or(getMetaContent(document, "name", "citation_conference_title"),
       Or(getMetaContent(document, "name", "citation_journal_title"),
          document.base.journalName))

AclAnthologyMetadataExtractor_extractTags(document) ==
    LET keywords == getMetaContent(document, "name", "keywords")
    IN  IF keywords # <<>> THEN MapTrim(Split(keywords, ",")) ELSE <<>>

(* IeeeMetadataExtractor *)

IeeeMetadataExtractor_extractTitle(document) ==
    Or(getMetaContent(document, "name", "citation_title"),
       Or(getMetaContent(document, "property", "og:title"),
          document.base.title))

ClassAuthorsInfo == <<"a","u","t","h","o","r","s","-","i","n","f","o">>
ClassAuthorName == <<"a","u","t","h","o","r","-","n","a","m","e">>
ClassAuthorCard == <<"a","u","t","h","o","r","-","c","a","r","d">>
ClassName == <<"n","a","m","e">>

\* '.authors-info .author-name, .author-card .name'
IsAuthorElement(el) ==
    \/ /\ HasClass(el.class, ClassAuthorName)
       /\ \E a \in el.inside : HasClass(a, ClassAuthorsInfo)
    \/ /\ HasClass(el.class, ClassName)
       /\ \E a \in el.inside : HasClass(a, ClassAuthorCard)

IeeeMetadataExtractor_extractAuthors(document) ==
    LET authors == CitationAuthors(document)
        authorElements == SelectSeq(document.elements, IsAuthorElement)
    IN  IF Len(authors) > 0 THEN Join(authors, CommaSpace)
        ELSE IF Len(authorElements) > 0
        THEN Join(FilterBoolean([i \in DOMAIN authorElements |->
                                    Trim(authorElements[i].text)]),
                  CommaSpace)
        ELSE document.base.authors

ClassAbstractText == <<"a","b","s","t","r","a","c","t","-","t","e","x","t">>
TextAbstract == <<"a","b","s","t","r","a","c","t">>

\* '.abstract-text, div[class*="abstract"]'
IsAbstractElement(el) ==
    \/ HasClass(el.class, ClassAbstractText)
    \/ el.tag = "div" /\ ClassContains(el.class, TextAbstract)

IeeeMetadataExtractor_extractDescription(document) ==
    LET abstractEl == First(SelectSeq(document.elements, IsAbstractElement))
        abstractText == IF abstractEl # Null THEN Trim(abstractEl.text) ELSE <<>>
    IN  Or(getMetaContent(document, "name", "citation_abstract"),
           Or(getMetaContent(document, "property", "og:description"),
              Or(abstractText, document.base.description)))

IeeeMetadataExtractor_extractPublishedDate(document) ==
    Or(getMetaContent(document, "name", "citation_publication_date"),
       Or(getMetaContent(document, "name", "citation_date"),
          document.base.publishedDate))

IeeeMetadataExtractor_extractDoi(document) ==
    Or(getMetaContent(document, "name", "citation_doi"), document.base.doi)

IeeeMetadataExtractor_extractJournalName(document) ==
    Or(getMetaContent(document, "name", "citation_journal_title"),
       Or(getMetaContent(document, "name", "citation_conference_title"),
          document.base.journalName))

IeeeMetadataExtractor_extractTags(document) ==
    LET keywords == Or(getMetaContent(document, "name", "citation_keywords"),
                       getMetaContent(document, "name", "keywords"))
    IN  IF keywords # <<>>
        THEN FilterBoolean(MapTrim(SplitAnyFrom(keywords, {",", ";"}, <<>>)))
        ELSE <<>>

(* NewspapersMetadataExtractor *)

NewspapersMetadataExtractor_extractTitle(document) ==
    Or(getMetaContent(document, "property", "og:title"),
       Or(getMetaContent(document, "name", "citation_title"),
          Or(getMetaContent(document, "name", "title"),
             document.base.title)))

StripByCaseSensitive(byl) ==
    LET match == MatchAt(byl, 1, <<Lit(<<"B","y">>), Rep(WhiteSpace, 1, 0)>>, 1)
    IN  IF match = <<>> THEN byl ELSE SubSeq(byl, match[3], Len(byl))

\* byl.replace(/^By\s+/i, '')
StripBy(byl) ==
    LET match == MatchAt(ToLowerCase(byl), 1, <<Lit(<<"b","y">>), Rep(WhiteSpace, 1, 0)>>, 1)
    IN  IF match = <<>> THEN byl ELSE SubSeq(byl, match[3], Len(byl))

NewspapersMetadataExtractor_extractAuthors(document) ==
    LET ogAuthor == Or(getMetaContent(document, "property", "article:author"),
                       getMetaContent(document, "name", "author"))
        IsByl(el) == el.attr = "name" /\ el.key = "byl"
        bylEl == First(SelectSeq(document.metas, IsByl))
    IN  IF ogAuthor # <<>> THEN ogAuthor
        ELSE IF bylEl # Null /\ IsString(bylEl.content) /\ bylEl.content.v # <<>>
        THEN StripBy(bylEl.content.v)
        ELSE document.base.authors

NewspapersMetadataExtractor_extractDescription(document) ==
    Or(getMetaContent(document, "property", "og:description"),
       Or(getMetaContent(document, "name", "description"),
          document.base.description))

NewspapersMetadataExtractor_extractPublishedDate(document) ==
    LET pdate == getMetaContent(document, "name", "pdate")
    IN  IF pdate # <<>> THEN pdate
        ELSE Or(getMetaContent(document, "property", "article:published_time"),
                Or(getMetaContent(document, "name", "date"),
                   document.base.publishedDate))

NewspapersMetadataExtractor_extractJournalName(document) ==
    Or(getMetaContent(document, "property", "og:site_name"),
       document.base.journalName)

NewspapersMetadataExtractor_extractTags(document) ==
    LET newsKeywords == getMetaContent(document, "name", "news_keywords")
        keywords == Or(getMetaContent(document, "name", "keywords"),
                       getMetaContent(document, "property", "article:tag"))
    IN  IF newsKeywords # <<>>
        THEN FilterBoolean(MapTrim(Split(newsKeywords, ",")))
        ELSE IF keywords # <<>>
        THEN FilterBoolean(MapTrim(Split(keywords, ",")))
        ELSE <<>>

---------------------------------------------------------------------------
(* Input domains *)

MaxInflight == 1

TokenA == <<"g","h","p","1">>
RepoA == <<"a","l","/","p","f">>
TokenValues == {<<>>, TokenA}
RepoValues == {<<>>, RepoA}

HostPagesA == <<"a","l">> \o GitHubIo
HostEvil == <<"e","v","i","l",".","e","x","a","m","p","l","e">>
UrlEvil == JsString(SchemeHttps \o HostEvil \o <<"/">>)
UrlPagesA == JsString(SchemeHttps \o HostPagesA \o <<"/","p","f","/">>)
UrlLocal == JsString(SchemeHttp \o Localhost \o <<":","8","0","/">>)
SenderUrls == {Undefined, UrlEvil, UrlPagesA, UrlLocal}

KeyColon == JsString(<<" ">> \o PaperColon \o <<"7"," ">>)
KeyDot == JsString(PaperDot \o <<"7">>)
KeyPlain == JsString(<<"n","7">>)
KeyBlank == JsString(<<" ","\t">>)
PaperKeys == {Undefined, NumberValue, KeyBlank, KeyColon, KeyDot, KeyPlain}

DateGood == JsString(<<"2","0","2","3","-","0","5","-","0","1">>)
DateBad == JsString(<<"0","5","-","0","1","-","2","0","2","3">>)
ManuallyReadValues == {Undefined, Null, NumberValue, DateGood, DateBad}

Papers == {[sourceId |-> "nber", paperId |-> "w1"],
           [sourceId |-> "ieee", paperId |-> "9054643"]}
Ratings == {"thumbsup"}

---------------------------------------------------------------------------
(* Services *)

\* new PaperManager(new GitHubStoreClient(token, repo), sourceManager)
NewPaperManager(token, repo) ==
    [t |-> "PaperManager", client |-> [token |-> token, repo |-> repo]]

Absent == "absent"
NoRating == "novote"

\* new SessionService(paperManager): no session, nothing cached
NewSessionService(manager) ==
    [paperManager |-> manager,
     session |-> Null,
     metadata |-> [p \in Papers |-> Absent]]

getCurrentSession == sessionService.session

\* getPaperMetadata(): the cached metadata of the current session's paper
getPaperMetadata ==
    IF sessionService.session = Null THEN Absent
    ELSE sessionService.metadata[sessionService.session]

(* Responses *)

Success == [success |-> TRUE, error |-> ""]
Failure(message) == [success |-> FALSE, error |-> message]
StoreError == "Store request failed"
NotConfigured == "GitHub sync is not configured in extension options"

(* Handler activations *)

NoExchange == [type |-> "none"]

NewHandler(type) ==
    [type |-> type,
     pc |-> "start",
     url |-> Undefined,             \* sender.url
     paperKey |-> Undefined,        \* message.paperKey
     manuallyRead |-> Undefined,    \* message.manuallyRead
     rating |-> "",                 \* message.rating
     payload |-> Undefined,         \* identifiers the message carries besides
     events |-> <<>>,               \* session starts and ends of this turn
     paper |-> Null,                \* the session or metadata identity used
     cached |-> FALSE,              \* the held metadata object is the cached one
     tokenSeen |-> githubToken,     \* githubToken when the handler started
     repoSeen |-> githubRepo,       \* githubRepo when the handler started
     client |-> Null,               \* the store client the handler holds
     phase |-> "",                  \* frontendDeletePaper: primary | interactions
     target |-> Null,               \* the object id being archived
     handled |-> TRUE,              \* FALSE: the listener returned false
     storeFailed |-> FALSE,         \* the handler's (primary) store call threw
     interactionsThrew |-> FALSE,   \* the interaction-log archive threw
     archived |-> FALSE,            \* archiveObjectById(paperKey) returned true
     responses |-> <<>>,            \* sendResponse calls, in order
     reqs |-> <<>>]                 \* store requests issued, in order

Request(op, target, client, body) ==
    [op |-> op, target |-> target, client |-> client, body |-> body]

Respond(h, response) == [h EXCEPT !.responses = Append(@, response)]

\* the handler returns: the exchange is complete
Finish(h, rest) ==
    /\ inflight' = rest
    /\ last' = [h EXCEPT !.pc = "done"]

\* the handler reaches an await with its request issued
SuspendAfter(others, h, pc, request) ==
    /\ inflight' = Append(others, [h EXCEPT !.pc = pc, !.reqs = Append(@, request)])
    /\ last' = NoExchange

Suspend(h, pc, request) == SuspendAfter(inflight, h, pc, request)

\* the event loop is between turns: the next event can be taken
Ready == last = NoExchange

Remove(seq, i) == SubSeq(seq, 1, i - 1) \o SubSeq(seq, i + 1, Len(seq))

---------------------------------------------------------------------------
(* initialize(): credentials loaded from storage, the services built *)

Init ==
    /\ sourceManager = initializeSources
    /\ githubToken \in TokenValues
    /\ githubRepo \in RepoValues
    /\ paperManager =
          IF githubToken # <<>> /\ githubRepo # <<>>
          THEN NewPaperManager(githubToken, githubRepo)
          ELSE Null
    /\ sessionService = NewSessionService(paperManager)
    /\ inflight = <<>>
    /\ last = NoExchange

---------------------------------------------------------------------------
(* chrome.storage.onChanged listener *)

\* a handler suspended in updateRating keeps the metadata object of the
\* session service it read it from; a new service caches new objects
Detach(h) == [h EXCEPT !.cached = FALSE]

RebuildKeepsSessionService(token, repo) ==
    IF token # <<>> /\ repo # <<>>
    THEN /\ paperManager' = NewPaperManager(token, repo)
         /\ sessionService' = [sessionService EXCEPT !.paperManager = paperManager']
         /\ UNCHANGED inflight
    ELSE UNCHANGED <<paperManager, sessionService, inflight>>

Rebuild(token, repo) ==
    IF token # <<>> /\ repo # <<>>
    THEN /\ paperManager' = NewPaperManager(token, repo)
         /\ sessionService' = NewSessionService(paperManager')
         /\ inflight' = [i \in DOMAIN inflight |-> Detach(inflight[i])]
    ELSE UNCHANGED <<paperManager, sessionService, inflight>>

onChanged(changes) ==
    /\ githubToken' =
          IF changes.githubToken # Undefined THEN changes.githubToken.newValue
          ELSE githubToken
    /\ githubRepo' =
          IF changes.githubRepo # Undefined THEN changes.githubRepo.newValue
          ELSE githubRepo
    /\ IF changes.githubToken # Undefined \/ changes.githubRepo # Undefined
       THEN Rebuild(githubToken', githubRepo')
       ELSE UNCHANGED <<paperManager, sessionService, inflight>>
    /\ last' = [type |-> "storageChanged"]
    /\ UNCHANGED sourceManager

Changes ==
    {c \in [githubToken : {Undefined} \cup [newValue : TokenValues],
            githubRepo : {Undefined} \cup [newValue : RepoValues]] :
        /\ c.githubToken # Undefined \/ c.githubRepo # Undefined
        /\ c.githubToken # Undefined => c.githubToken.newValue # githubToken
        /\ c.githubRepo # Undefined => c.githubRepo.newValue # githubRepo}

StorageChanged == Ready /\ \E changes \in Changes : onChanged(changes)

---------------------------------------------------------------------------
(* frontendUpdateManualReadStatus *)

HandleFrontendUpdateNoTrim(message, sender) ==
    LET paperKey == IF IsString(message.paperKey) THEN message.paperKey.v ELSE <<>>
        manuallyRead ==
            IF message.manuallyRead = Undefined THEN Null ELSE message.manuallyRead
        h == [NewHandler("frontendUpdateManualReadStatus") EXCEPT
                 !.url = sender.url,
                 !.paperKey = message.paperKey,
                 !.manuallyRead = message.manuallyRead]
    IN  /\ IF ~isTrustedFrontendUrl(sender.url)
           THEN Finish(Respond(h, Failure("Untrusted frontend origin")), inflight)
           ELSE IF paperKey = <<>>
           THEN Finish(Respond(h, Failure("Invalid paper key")), inflight)
           ELSE IF /\ manuallyRead # Null
                   /\ \/ ~IsString(manuallyRead)
                      \/ ~PatternTest(READ_DATE_PATTERN, manuallyRead.v)
           THEN Finish(Respond(h, Failure("Invalid manuallyRead date format")), inflight)
           ELSE IF paperManager = Null
           THEN Finish(Respond(h, Failure(NotConfigured)), inflight)
           ELSE Suspend([h EXCEPT !.client = paperManager.client],
                        "updateObject",
                        Request("updateObject", JsString(paperKey),
                                paperManager.client, manuallyRead))
        /\ UNCHANGED <<sourceManager, githubToken, githubRepo, paperManager, sessionService>>

handleFrontendUpdateManualReadStatus(message, sender) ==
    LET paperKey ==
            IF IsString(message.paperKey) THEN Trim(message.paperKey.v) ELSE <<>>
        manuallyRead ==
            IF message.manuallyRead = Undefined THEN Null ELSE message.manuallyRead
        h == [NewHandler("frontendUpdateManualReadStatus") EXCEPT
                 !.url = sender.url,
                 !.paperKey = message.paperKey,
                 !.manuallyRead = message.manuallyRead]
    IN  /\ IF ~isTrustedFrontendUrl(sender.url)
           THEN Finish(Respond(h, Failure("Untrusted frontend origin")), inflight)
           ELSE IF paperKey = <<>>
           THEN Finish(Respond(h, Failure("Invalid paper key")), inflight)
           ELSE IF /\ manuallyRead # Null
                   /\ \/ ~IsString(manuallyRead)
                      \/ ~PatternTest(READ_DATE_PATTERN, manuallyRead.v)
           THEN Finish(Respond(h, Failure("Invalid manuallyRead date format")), inflight)
           ELSE IF paperManager = Null
           THEN Finish(Respond(h, Failure(NotConfigured)), inflight)
           ELSE Suspend([h EXCEPT !.client = paperManager.client],
                        "updateObject",
                        Request("updateObject", JsString(paperKey),
                                paperManager.client, manuallyRead))
        /\ UNCHANGED <<sourceManager, githubToken, githubRepo, paperManager, sessionService>>

FrontendUpdateManualReadStatus ==
    /\ Ready
    /\ Len(inflight) < MaxInflight
    /\ \E paperKey \in PaperKeys, manuallyRead \in ManuallyReadValues, url \in SenderUrls :
          handleFrontendUpdateManualReadStatus(
              [paperKey |-> paperKey, manuallyRead |-> manuallyRead], [url |-> url])

UpdateObjectSettlesEndsSession(i, outcome) ==
    /\ inflight[i].pc = "updateObject"
    /\ IF outcome = "ok"
       THEN Finish(Respond(inflight[i], Success), Remove(inflight, i))
       ELSE Finish(Respond([inflight[i] EXCEPT !.storeFailed = TRUE],
                           Failure(StoreError)),
                   Remove(inflight, i))
    /\ sessionService' = [sessionService EXCEPT !.session = Null]
    /\ UNCHANGED <<sourceManager, githubToken, githubRepo, paperManager>>

\* await paperManager.getClient().updateObject(...) settles
UpdateObjectSettles(i, outcome) ==
    /\ inflight[i].pc = "updateObject"
    /\ IF outcome = "ok"
       THEN Finish(Respond(inflight[i], Success), Remove(inflight, i))
       ELSE Finish(Respond([inflight[i] EXCEPT !.storeFailed = TRUE],
                           Failure(StoreError)),
                   Remove(inflight, i))
    /\ UNCHANGED <<sourceManager, githubToken, githubRepo, paperManager, sessionService>>

---------------------------------------------------------------------------
(* frontendDeletePaper: archiveObjectById(client, paperKey), then, best     *)
(* effort, archiveObjectById(client, interactionsKey)                       *)

\* findIssueNumberForObject: GET /issues with labels stored-object,UID:<id>
FindIssueRequest(client, objectId) ==
    Request("GET /issues", objectId, client, "labels=stored-object,UID;state=all")

\* POST /issues/<n>/labels {labels: ['archived']}
AddLabelRequest(client, objectId) ==
    Request("POST /issues/n/labels", objectId, client, "labels=archived")

\* PATCH /issues/<n> {state: 'closed'}
CloseIssueRequest(client, objectId) ==
    Request("PATCH /issues/n", objectId, client, "state=closed")

HandleFrontendDeletePaperKeyFirst(message, sender) ==
    LET paperKey ==
            IF IsString(message.paperKey) THEN Trim(message.paperKey.v) ELSE <<>>
        h == [NewHandler("frontendDeletePaper") EXCEPT
                 !.url = sender.url,
                 !.paperKey = message.paperKey]
    IN  /\ IF paperKey = <<>>
           THEN Finish(Respond(h, Failure("Invalid paper key")), inflight)
           ELSE IF ~isTrustedFrontendUrl(sender.url)
           THEN Finish(Respond(h, Failure("Untrusted frontend origin")), inflight)
           ELSE IF paperManager = Null
           THEN Finish(Respond(h, Failure(NotConfigured)), inflight)
           ELSE Suspend([h EXCEPT !.client = paperManager.client,
                                  !.phase = "primary",
                                  !.target = JsString(paperKey)],
                        "findIssue",
                        FindIssueRequest(paperManager.client, JsString(paperKey)))
        /\ UNCHANGED <<sourceManager, githubToken, githubRepo, paperManager, sessionService>>

handleFrontendDeletePaper(message, sender) ==
    LET paperKey ==
            IF IsString(message.paperKey) THEN Trim(message.paperKey.v) ELSE <<>>
        h == [NewHandler("frontendDeletePaper") EXCEPT
                 !.url = sender.url,
                 !.paperKey = message.paperKey]
    IN  /\ IF ~isTrustedFrontendUrl(sender.url)
           THEN Finish(Respond(h, Failure("Untrusted frontend origin")), inflight)
           ELSE IF paperKey = <<>>
           THEN Finish(Respond(h, Failure("Invalid paper key")), inflight)
           ELSE IF paperManager = Null
           THEN Finish(Respond(h, Failure(NotConfigured)), inflight)
           ELSE Suspend([h EXCEPT !.client = paperManager.client,
                                  !.phase = "primary",
                                  !.target = JsString(paperKey)],
                        "findIssue",
                        FindIssueRequest(paperManager.client, JsString(paperKey)))
        /\ UNCHANGED <<sourceManager, githubToken, githubRepo, paperManager, sessionService>>

FrontendDeletePaper ==
    /\ Ready
    /\ Len(inflight) < MaxInflight
    /\ \E paperKey \in PaperKeys, url \in SenderUrls :
          handleFrontendDeletePaper([paperKey |-> paperKey], [url |-> url])

\* the handler moves on to its next await
Continue(i, h, pc, request) ==
    /\ inflight' = [inflight EXCEPT ![i] = [h EXCEPT !.pc = pc, !.reqs = Append(@, request)]]
    /\ last' = NoExchange

\* archiveObjectById(client, paperKey) has returned true
AfterPrimaryArchived(i, h) ==
    LET interactionsKey == toInteractionObjectId(h.target.v)
    IN  IF interactionsKey # Null
        THEN Continue(i, [h EXCEPT !.phase = "interactions", !.target = interactionsKey],
                      "findIssue", FindIssueRequest(h.client, interactionsKey))
        ELSE Finish(Respond(h, Success), Remove(inflight, i))

\* an await of the primary archive throws: the outer catch
PrimaryThrowsUnanswered(i, h) ==
    Finish([h EXCEPT !.storeFailed = TRUE], Remove(inflight, i))

PrimaryThrows(i, h) ==
    Finish(Respond([h EXCEPT !.storeFailed = TRUE], Failure(StoreError)),
           Remove(inflight, i))

\* the interaction-log archive ends (true, false or caught): success
InteractionsFailFatal(i, h, threw) ==
    IF threw
    THEN Finish(Respond([h EXCEPT !.interactionsThrew = TRUE], Failure(StoreError)),
                Remove(inflight, i))
    ELSE Finish(Respond(h, Success), Remove(inflight, i))

InteractionsEnd(i, h, threw) ==
    Finish(Respond([h EXCEPT !.interactionsThrew = threw], Success), Remove(inflight, i))

FindIssueSettlesArchivesLogAnyway(i, outcome) ==
    LET h == inflight[i]
    IN  /\ h.pc = "findIssue"
        /\ IF outcome = "found"
           THEN Continue(i, h, "addLabel", AddLabelRequest(h.client, h.target))
           ELSE IF h.phase = "primary"
           THEN IF outcome = "none"
                THEN AfterPrimaryArchived(i, h)
                ELSE PrimaryThrows(i, h)
           ELSE InteractionsEnd(i, h, outcome = "throw")
        /\ UNCHANGED <<sourceManager, githubToken, githubRepo, paperManager, sessionService>>

\* await client.fetchFromGitHub('/issues', GET) settles
FindIssueSettles(i, outcome) ==
    LET h == inflight[i]
    IN  /\ h.pc = "findIssue"
        /\ IF outcome = "found"
           THEN Continue(i, h, "addLabel", AddLabelRequest(h.client, h.target))
           ELSE IF h.phase = "primary"
           THEN IF outcome = "none"
                THEN Finish(Respond(h, Failure("Paper not found in store")),
                            Remove(inflight, i))
                ELSE PrimaryThrows(i, h)
           ELSE InteractionsEnd(i, h, outcome = "throw")
        /\ UNCHANGED <<sourceManager, githubToken, githubRepo, paperManager, sessionService>>

\* await client.fetchFromGitHub('/issues/<n>/labels', POST) settles
AddLabelSettles(i, outcome) ==
    LET h == inflight[i]
    IN  /\ h.pc = "addLabel"
        /\ IF outcome = "ok"
           THEN Continue(i, h, "closeIssue", CloseIssueRequest(h.client, h.target))
           ELSE IF h.phase = "primary"
           THEN PrimaryThrows(i, h)
           ELSE InteractionsEnd(i, h, TRUE)
        /\ UNCHANGED <<sourceManager, githubToken, githubRepo, paperManager, sessionService>>

\* await client.fetchFromGitHub('/issues/<n>', PATCH) settles
CloseIssueSettles(i, outcome) ==
    LET h == inflight[i]
    IN  /\ h.pc = "closeIssue"
        /\ IF h.phase = "primary"
           THEN IF outcome = "ok"
                THEN AfterPrimaryArchived(i, [h EXCEPT !.archived = TRUE])
                ELSE PrimaryThrows(i, h)
           ELSE InteractionsEnd(i, h, outcome = "throw")
        /\ UNCHANGED <<sourceManager, githubToken, githubRepo, paperManager, sessionService>>

---------------------------------------------------------------------------
(* Session service operations used by the handlers *)

\* storePaperMetadata(metadata): the message's object becomes the cached one
storePaperMetadata(paper) ==
    sessionService' = [sessionService EXCEPT !.metadata[paper] = NoRating]

\* suspended updateRating handlers holding the replaced object lose the cache
AfterStore(paper) ==
    [i \in DOMAIN inflight |->
        IF inflight[i].type = "updateRating" /\ inflight[i].paper = paper
        THEN Detach(inflight[i])
        ELSE inflight[i]]

GetOrCreatePaperRequest(client, paper) ==
    Request("getOrCreatePaper", paper, client, NoRating)

---------------------------------------------------------------------------
(* paperMetadata: handlePaperMetadata is started, the listener answers *)

handlePaperMetadata(metadata) ==
    LET h == [NewHandler("paperMetadata") EXCEPT !.paper = metadata]
    IN  /\ storePaperMetadata(metadata)
        /\ IF paperManager # Null
           THEN SuspendAfter(AfterStore(metadata),
                             Respond([h EXCEPT !.client = paperManager.client], Success),
                             "getOrCreatePaper",
                             GetOrCreatePaperRequest(paperManager.client, metadata))
           ELSE Finish(Respond(h, Success), AfterStore(metadata))
        /\ UNCHANGED <<sourceManager, githubToken, githubRepo, paperManager>>

\* a message the listener does not handle: it returns false, no response
NotHandled(type) ==
    /\ last' = [NewHandler(type) EXCEPT !.pc = "done", !.handled = FALSE]
    /\ UNCHANGED <<sourceManager, githubToken, githubRepo, paperManager, sessionService, inflight>>

PaperMetadata ==
    /\ Ready
    /\ Len(inflight) < MaxInflight
    /\ \E metadata \in Papers \cup {Undefined} :
          IF metadata # Undefined
          THEN handlePaperMetadata(metadata)
          ELSE NotHandled("paperMetadata")

(* manualPaperLog: the listener answers when handleManualPaperLog settles *)

handleManualPaperLog(metadata) ==
    LET h == [NewHandler("manualPaperLog") EXCEPT !.paper = metadata]
    IN  /\ storePaperMetadata(metadata)
        /\ IF paperManager # Null
           THEN SuspendAfter(AfterStore(metadata),
                             [h EXCEPT !.client = paperManager.client],
                             "getOrCreatePaper",
                             GetOrCreatePaperRequest(paperManager.client, metadata))
           ELSE Finish(Respond(h, Success), AfterStore(metadata))
        /\ UNCHANGED <<sourceManager, githubToken, githubRepo, paperManager>>

ManualPaperLog ==
    /\ Ready
    /\ Len(inflight) < MaxInflight
    /\ \E metadata \in Papers \cup {Undefined} :
          IF metadata # Undefined
          THEN handleManualPaperLog(metadata)
          ELSE NotHandled("manualPaperLog")

\* await paperManager.getOrCreatePaper(metadata) settles
GetOrCreatePaperSettles(i, outcome) ==
    LET h == [inflight[i] EXCEPT !.storeFailed = (outcome = "throw")]
    IN  /\ h.pc = "getOrCreatePaper"
        /\ IF h.type = "paperMetadata"
           THEN Finish(h, Remove(inflight, i))      \* caught and logged
           ELSE IF outcome = "ok"
           THEN Finish(Respond(h, Success), Remove(inflight, i))
           ELSE Finish(Respond(h, Failure(StoreError)), Remove(inflight, i))
        /\ UNCHANGED <<sourceManager, githubToken, githubRepo, paperManager, sessionService>>

---------------------------------------------------------------------------
(* updateRating *)

UpdateRatingRequest(client, session, rating) ==
    Request("updateRating", session, client, rating)

HandleUpdateRatingTrustsPayload(rating, sendResponse) ==
    LET h == [sendResponse EXCEPT !.rating = rating]
        session == IF h.payload # Undefined THEN h.payload ELSE getCurrentSession
        metadata == getPaperMetadata
    IN  /\ IF paperManager = Null
           THEN Finish(Respond(h, Failure("Services not initialized")), inflight)
           ELSE IF session = Null
           THEN Finish(Respond(h, Failure("No current session")), inflight)
           ELSE IF metadata = Absent
           THEN Finish(Respond(h, Failure("No paper metadata available")), inflight)
           ELSE Suspend([h EXCEPT !.paper = session,
                                  !.cached = TRUE,
                                  !.client = paperManager.client],
                        "updateRating",
                        UpdateRatingRequest(paperManager.client, session, rating))
        /\ UNCHANGED <<sourceManager, githubToken, githubRepo, paperManager, sessionService>>

\* sendResponse stands for the exchange the listener opened for the message
handleUpdateRating(rating, sendResponse) ==
    LET h == [sendResponse EXCEPT !.rating = rating]
        session == getCurrentSession
        metadata == getPaperMetadata
    IN  /\ IF paperManager = Null
           THEN Finish(Respond(h, Failure("Services not initialized")), inflight)
           ELSE IF session = Null
           THEN Finish(Respond(h, Failure("No current session")), inflight)
           ELSE IF metadata = Absent
           THEN Finish(Respond(h, Failure("No paper metadata available")), inflight)
           ELSE Suspend([h EXCEPT !.paper = session,
                                  !.cached = TRUE,
                                  !.client = paperManager.client],
                        "updateRating",
                        UpdateRatingRequest(paperManager.client, session, rating))
        /\ UNCHANGED <<sourceManager, githubToken, githubRepo, paperManager, sessionService>>

UpdateRating ==
    /\ Ready
    /\ Len(inflight) < MaxInflight
    /\ \E message \in [rating : Ratings, paper : Papers \cup {Undefined}] :
          handleUpdateRating(message.rating,
                             [NewHandler("updateRating") EXCEPT !.payload = message.paper])

UpdateRatingSettlesWritesCurrent(i, outcome) ==
    LET h == inflight[i]
    IN  /\ h.pc = "updateRating"
        /\ IF outcome = "ok"
           THEN /\ sessionService' =
                      IF getPaperMetadata # Absent
                      THEN [sessionService EXCEPT !.metadata[getCurrentSession] = h.rating]
                      ELSE sessionService
                /\ Finish(Respond(h, Success), Remove(inflight, i))
           ELSE /\ UNCHANGED sessionService
                /\ Finish(Respond([h EXCEPT !.storeFailed = TRUE], Failure(StoreError)),
                          Remove(inflight, i))
        /\ UNCHANGED <<sourceManager, githubToken, githubRepo, paperManager>>

\* await paperManager.updateRating(...) settles; metadata.rating = rating
UpdateRatingSettles(i, outcome) ==
    LET h == inflight[i]
    IN  /\ h.pc = "updateRating"
        /\ IF outcome = "ok"
           THEN /\ sessionService' =
                      IF h.cached
                      THEN [sessionService EXCEPT !.metadata[h.paper] = h.rating]
                      ELSE sessionService
                /\ Finish(Respond(h, Success), Remove(inflight, i))
           ELSE /\ UNCHANGED sessionService
                /\ Finish(Respond([h EXCEPT !.storeFailed = TRUE], Failure(StoreError)),
                          Remove(inflight, i))
        /\ UNCHANGED <<sourceManager, githubToken, githubRepo, paperManager>>

---------------------------------------------------------------------------
(* startSession, endSession *)

SessionEvent(op, session) == [op |-> op, session |-> session]

\* getPaperMetadata(sourceId, paperId): the cached metadata of that paper
getPaperMetadataOf(sourceId, paperId) ==
    sessionService.metadata[[sourceId |-> sourceId, paperId |-> paperId]]

\* startSession: a session that is active is ended, then the new one is the
\* active one; already-known metadata stays attached to the paper
startSession(sourceId, paperId, existingMetadata) ==
    LET session == [sourceId |-> sourceId, paperId |-> paperId]
    IN  [service |-> [sessionService EXCEPT !.session = session],
         events |-> (IF sessionService.session # Null
                     THEN <<SessionEvent("end", sessionService.session)>>
                     ELSE <<>>) \o <<SessionEvent("start", session)>>]

\* endSession: the active session is ended, none is active afterwards
endSession ==
    [service |-> [sessionService EXCEPT !.session = Null],
     events |-> <<SessionEvent("end", sessionService.session)>>]

HandleStartSessionKeepsActive(sourceId, paperId) ==
    LET existingMetadata == getPaperMetadataOf(sourceId, paperId)
        started == startSession(sourceId, paperId, existingMetadata)
        h == [NewHandler("startSession") EXCEPT
                !.pc = "done", !.paper = [sourceId |-> sourceId, paperId |-> paperId]]
    IN  /\ IF getCurrentSession # Null
           THEN /\ UNCHANGED sessionService
                /\ last' = Respond(h, Success)
           ELSE /\ sessionService' = started.service
                /\ last' = Respond([h EXCEPT !.events = started.events], Success)
        /\ UNCHANGED <<sourceManager, githubToken, githubRepo, paperManager, inflight>>

handleStartSession(sourceId, paperId) ==
    LET existingMetadata == getPaperMetadataOf(sourceId, paperId)
        started == startSession(sourceId, paperId, existingMetadata)
        h == [NewHandler("startSession") EXCEPT
                !.pc = "done", !.paper = [sourceId |-> sourceId, paperId |-> paperId]]
    IN  /\ sessionService' = started.service
        /\ last' = Respond([h EXCEPT !.events = started.events], Success)
        /\ UNCHANGED <<sourceManager, githubToken, githubRepo, paperManager, inflight>>

StartSession == Ready /\ \E p \in Papers : handleStartSession(p.sourceId, p.paperId)

HandleEndSessionUnguarded ==
    LET h == [NewHandler("endSession") EXCEPT !.pc = "done"]
    IN  /\ sessionService' = endSession.service
        /\ last' = Respond([h EXCEPT !.events = endSession.events], Success)
        /\ UNCHANGED <<sourceManager, githubToken, githubRepo, paperManager, inflight>>

handleEndSession ==
    LET h == [NewHandler("endSession") EXCEPT !.pc = "done"]
        session == getCurrentSession
    IN  /\ IF session # Null
           THEN /\ sessionService' = endSession.service
                /\ last' = Respond([h EXCEPT !.events = endSession.events], Success)
           ELSE /\ UNCHANGED sessionService
                /\ last' = Respond(h, Success)
        /\ UNCHANGED <<sourceManager, githubToken, githubRepo, paperManager, inflight>>

EndSession == Ready /\ handleEndSession

---------------------------------------------------------------------------
(* getCurrentPaper: the listener answers with the current paper's metadata *)

\* what the popup is sent for a paper: the cached metadata, with its rating
PaperMetadataOf(session, metadata) ==
    IF metadata = Absent THEN Undefined
    ELSE [sourceId |-> session.sourceId, paperId |-> session.paperId,
          rating |-> metadata]

GetCurrentPaper ==
    /\ Ready
    /\ LET session == getCurrentSession
           paperMetadata ==
               IF session # Null
               THEN PaperMetadataOf(session,
                                    getPaperMetadataOf(session.sourceId, session.paperId))
               ELSE Null
           h == [NewHandler("getCurrentPaper") EXCEPT !.pc = "done", !.paper = session]
       IN  last' = Respond(h, paperMetadata)
    /\ UNCHANGED <<sourceManager, githubToken, githubRepo, paperManager, sessionService,
                   inflight>>

---------------------------------------------------------------------------
(* The event loop: one message, one settled await or one storage change *)

SettlesAt(i) ==
        \/ \E outcome \in {"ok", "throw"} : UpdateObjectSettles(i, outcome)
        \/ \E outcome \in {"found", "none", "throw"} : FindIssueSettles(i, outcome)
        \/ \E outcome \in {"ok", "throw"} : AddLabelSettles(i, outcome)
        \/ \E outcome \in {"ok", "throw"} : CloseIssueSettles(i, outcome)
        \/ \E outcome \in {"ok", "throw"} : GetOrCreatePaperSettles(i, outcome)
        \/ \E outcome \in {"ok", "throw"} : UpdateRatingSettles(i, outcome)

StoreSettles == Ready /\ \E i \in DOMAIN inflight : SettlesAt(i)

\* the turn ends: what it completed has been handed to the sender
EndOfTurn ==
    /\ ~Ready
    /\ last' = NoExchange
    /\ UNCHANGED <<sourceManager, githubToken, githubRepo, paperManager, sessionService, inflight>>

Next ==
    \/ StorageChanged
    \/ FrontendUpdateManualReadStatus
    \/ FrontendDeletePaper
    \/ PaperMetadata
    \/ ManualPaperLog
    \/ UpdateRating
    \/ StartSession
    \/ EndSession
    \/ GetCurrentPaper
    \/ StoreSettles
    \/ EndOfTurn

Spec == Init /\ [][Next]_vars

---------------------------------------------------------------------------
(* What the claims speak of *)

FrontendTypes == {"frontendUpdateManualReadStatus", "frontendDeletePaper"}
AsyncTypes == FrontendTypes \cup {"updateRating", "manualPaperLog"}
StoreTypes == AsyncTypes \cup {"paperMetadata"}

\* the handler activations of the state: suspended ones and the one the
\* current turn completed
Completed == last.type \in StoreTypes /\ last.pc = "done"
Activations == {inflight[i] : i \in DOMAIN inflight} \cup (IF Completed THEN {last} ELSE {})

\* the GitHub Pages origin of the configured repository, or a local host
FromAllowedOrigin(h) == h.repoSeen = RepoA /\ h.url \in {UrlPagesA, UrlLocal}

\* the key is a string with something left after trimming
UsableKeys == {KeyColon, KeyDot, KeyPlain}

\* four digits, dash, two digits, dash, two digits
IsYmd(x) ==
    /\ IsString(x)
    /\ Len(x.v) = 10
    /\ x.v[5] = "-" /\ x.v[8] = "-"
    /\ \A i \in {1, 2, 3, 4, 6, 7, 9, 10} : x.v[i] \in Digits

Answered(h, response) == h.responses = <<response>>

---------------------------------------------------------------------------
(* C1: the origin check of the frontend handlers *)

\* githubRepo is what the handler saw, so the verdict on its sender is too
UntrustedRejected ==
    (/\ Completed /\ last.type \in FrontendTypes
     /\ githubRepo = last.repoSeen
     /\ ~isTrustedFrontendUrl(last.url))
        => /\ Answered(last, Failure("Untrusted frontend origin"))
           /\ last.reqs = <<>>

OnlyAllowedOriginsReachStore ==
    \A h \in Activations :
        (h.type \in FrontendTypes /\ h.reqs # <<>>) => FromAllowedOrigin(h)

PagesDelete ==
    /\ Completed
    /\ last.type = "frontendDeletePaper"
    /\ last.url = UrlPagesA /\ last.repoSeen = RepoA
    /\ last.paperKey \in UsableKeys

\* C1 as stated: an untrusted sender is answered "Untrusted frontend origin"
\* without any store request, and a frontendDeletePaper from the Pages
\* origin of the configured repository with a usable key issues a store
\* request
C1_AsStated ==
    /\ UntrustedRejected
    /\ OnlyAllowedOriginsReachStore
    /\ PagesDelete => last.reqs # <<>>

\* C1 amended: the same, the accepted delete reaching the store when a
\* paper manager exists and being answered "not configured" when none does
C1_OriginCheck ==
    /\ UntrustedRejected
    /\ OnlyAllowedOriginsReachStore
    /\ PagesDelete =>
          IF last.reqs = <<>>
          THEN paperManager = Null /\ Answered(last, Failure(NotConfigured))
          ELSE /\ last.reqs[1] = FindIssueRequest(last.client, JsString(Trim(last.paperKey.v)))
               /\ last.client = [token |-> TokenA, repo |-> RepoA]

C1_Witness ==
    /\ Completed
    /\ last.type = "frontendDeletePaper"
    /\ last.url = UrlEvil
    /\ last.paperKey = KeyColon
    /\ paperManager # Null /\ githubToken = TokenA /\ githubRepo = RepoA
    /\ Answered(last, Failure("Untrusted frontend origin"))

---------------------------------------------------------------------------
(* C3: the manuallyRead date check *)

\* C3: from an allowed origin with a usable key, a manuallyRead that is
\* neither null (or absent) nor a YYYY-MM-DD string is answered "Invalid
\* manuallyRead date format" without a store request; null and YYYY-MM-DD
\* pass the check
C3_DateCheck ==
    \A h \in Activations :
        (/\ h.type = "frontendUpdateManualReadStatus"
         /\ FromAllowedOrigin(h)
         /\ h.paperKey \in UsableKeys)
        => IF h.manuallyRead \in {Undefined, Null} \/ IsYmd(h.manuallyRead)
           THEN \/ h.pc = "updateObject" /\ h.responses = <<>>
                \/ h.pc = "done" /\ h.reqs # <<>>
                \/ h.pc = "done" /\ Answered(h, Failure(NotConfigured))
           ELSE /\ h.pc = "done"
                /\ Answered(h, Failure("Invalid manuallyRead date format"))
                /\ h.reqs = <<>>

C3_Witness ==
    /\ Completed
    /\ last.type = "frontendUpdateManualReadStatus"
    /\ last.url = UrlPagesA /\ last.repoSeen = RepoA
    /\ last.paperKey = KeyColon
    /\ last.manuallyRead = DateBad
    /\ paperManager # Null
    /\ Answered(last, Failure("Invalid manuallyRead date format"))
    /\ last.reqs = <<>>

---------------------------------------------------------------------------
(* C4: every input check comes before the store *)

\* C4: a frontend handler that has issued a store request passed the
\* origin check, has a usable key and (for the update) a null or
\* YYYY-MM-DD date; from an allowed origin a missing, non-string or blank
\* key is answered "Invalid paper key" without a store request
C4_ChecksBeforeStore ==
    \A h \in Activations :
        h.type \in FrontendTypes =>
            /\ h.reqs # <<>> =>
                  /\ FromAllowedOrigin(h)
                  /\ h.paperKey \in UsableKeys
                  /\ h.reqs[1].target = JsString(Trim(h.paperKey.v))
                  /\ h.type = "frontendUpdateManualReadStatus" =>
                        (h.manuallyRead \in {Undefined, Null} \/ IsYmd(h.manuallyRead))
            /\ (FromAllowedOrigin(h) /\ h.paperKey \notin UsableKeys) =>
                  /\ h.pc = "done"
                  /\ Answered(h, Failure("Invalid paper key"))
                  /\ h.reqs = <<>>

C4_Witness ==
    /\ Completed
    /\ last.type = "frontendUpdateManualReadStatus"
    /\ last.url = UrlLocal /\ last.repoSeen = RepoA
    /\ last.paperKey = KeyBlank
    /\ last.manuallyRead = DateBad
    /\ paperManager # Null
    /\ Answered(last, Failure("Invalid paper key"))
    /\ last.reqs = <<>>

---------------------------------------------------------------------------
(* C5: credentials unset *)

NotConfiguredErrors == {"Services not initialized", NotConfigured}

\* an updateRating needs a session with cached metadata; a frontend request
\* the Pages origin of the repository, a usable key and a well-formed date
OtherwiseValid(h) ==
    \/ /\ h.type = "updateRating"
       /\ \/ h.paper # Null
          \/ /\ h.reqs = <<>>
             /\ getCurrentSession # Null
             /\ getPaperMetadata # Absent
    \/ /\ h.type \in FrontendTypes
       /\ h.url = UrlPagesA /\ h.repoSeen = RepoA
       /\ h.paperKey \in UsableKeys
       /\ h.type = "frontendUpdateManualReadStatus" =>
             (h.manuallyRead \in {Undefined, Null} \/ IsYmd(h.manuallyRead))

\* C5: a dependent handler started while the token or the repo is empty,
\* on an otherwise valid request, issues no store request and answers a
\* not-configured error
C5_AsStated ==
    \A h \in Activations :
        (/\ h.type \in FrontendTypes \cup {"updateRating"}
         /\ h.tokenSeen = <<>> \/ h.repoSeen = <<>>
         /\ OtherwiseValid(h))
        => /\ h.reqs = <<>>
           /\ h.pc = "done"
           /\ Len(h.responses) = 1
           /\ ~h.responses[1].success
           /\ h.responses[1].error \in NotConfiguredErrors

---------------------------------------------------------------------------
(* C6: every asynchronous handler answers exactly once *)

---------------------------------------------------------------------------
(* C7: a store error surfaces as a failure response *)

\* C7: a completed handler of a store-crossing message type whose store
\* call threw has answered with a failure and never with success
C7_AsStated ==
    (Completed /\ last.storeFailed)
        => /\ last.responses # <<>>
           /\ \A k \in DOMAIN last.responses : ~last.responses[k].success

---------------------------------------------------------------------------
(* C8: delete archives, and the interaction log is best effort *)

ArchiveOps == {"GET /issues", "POST /issues/n/labels", "PATCH /issues/n"}

\* C8: once the primary record is archived the delete is answered with
\* success, whether the interaction-log archive threw, found no record or
\* was not attempted for want of a paper prefix; every store request of a
\* delete is a lookup, the 'archived' label or the closing of the issue
C8_DeleteArchives ==
    \A h \in Activations :
        h.type = "frontendDeletePaper" =>
            /\ (h.pc = "done" /\ h.archived) => Answered(h, Success)
            /\ \A k \in DOMAIN h.reqs :
                  /\ h.reqs[k].op \in ArchiveOps
                  /\ h.reqs[k].op = "POST /issues/n/labels" =>
                        h.reqs[k].body = "labels=archived"
                  /\ h.reqs[k].op = "PATCH /issues/n" =>
                        h.reqs[k].body = "state=closed"

C8_Witness ==
    /\ Completed
    /\ last.type = "frontendDeletePaper"
    /\ last.archived
    /\ last.interactionsThrew
    /\ Len(last.reqs) = 5
    /\ Answered(last, Success)

---------------------------------------------------------------------------
(* C10: the services after a credential change *)

\* C10: the paper manager in use, and the one the session service holds,
\* is the one built from the current token and repo: none when either is
\* empty
C10_AsStated ==
    /\ paperManager =
          IF githubToken # <<>> /\ githubRepo # <<>>
          THEN NewPaperManager(githubToken, githubRepo)
          ELSE Null
    /\ sessionService.paperManager = paperManager

---------------------------------------------------------------------------
(* C11: endSession without an active session *)

\* C11: every endSession is answered with success and leaves no session
\* active and the cached metadata as it was; received while no session is
\* active it changes nothing and delivers no end to the session service, so
\* a second endSession leaves the state the first one left
C11_EndSessionIdempotent ==
    [][last'.type = "endSession" =>
          /\ Answered(last', Success)
          /\ sessionService'.session = Null
          /\ sessionService'.metadata = sessionService.metadata
          /\ sessionService.session = Null =>
                /\ sessionService' = sessionService
                /\ last'.events = <<>>
                /\ UNCHANGED <<sourceManager, githubToken, githubRepo, paperManager, inflight>>]_vars

C11_Witness ==
    /\ last.type = "endSession"
    /\ last.events = <<>>
    /\ Answered(last, Success)
    /\ sessionService.session = Null
    /\ \E p \in Papers : sessionService.metadata[p] \in Ratings

---------------------------------------------------------------------------
(* C12: one active session *)

\* C12: a startSession(sourceId, paperId) makes exactly that session the
\* current one; a session active before is ended first, and nothing else is
\* started or ended
C12_OneActiveSession ==
    [][last'.type = "startSession" =>
          /\ Answered(last', Success)
          /\ sessionService'.session = last'.paper
          /\ last'.events =
                (IF sessionService.session # Null
                 THEN <<SessionEvent("end", sessionService.session)>>
                 ELSE <<>>) \o <<SessionEvent("start", last'.paper)>>]_vars

C12_Witness ==
    /\ last.type = "startSession"
    /\ Len(last.events) = 2
    /\ last.events[1].op = "end" /\ last.events[1].session # last.paper
    /\ last.events[2] = SessionEvent("start", last.paper)
    /\ sessionService.session = last.paper

---------------------------------------------------------------------------
(* C13: updateRating targets the session *)

\* an updateRating handler has just suspended at its store call
RatingRequested ==
    /\ Len(inflight') > Len(inflight)
    /\ inflight'[Len(inflight')].type = "updateRating"

\* an updateRating handler has just returned without a store call
RatingRefused == last'.type = "updateRating" /\ last'.reqs = <<>>

RatingTargetsSession ==
    RatingRequested =>
        /\ sessionService.session # Null
        /\ inflight'[Len(inflight')].reqs =
              <<UpdateRatingRequest(paperManager.client, sessionService.session,
                                    inflight'[Len(inflight')].rating)>>

\* C13 as stated: the store request of an updateRating carries the identity
\* of the session current when the handler runs, whatever identifiers the
\* message carries, and with no session active the handler answers "No
\* current session" without a store request
C13_AsStated ==
    [][/\ RatingTargetsSession
       /\ (last'.type = "updateRating" /\ sessionService.session = Null) =>
             /\ RatingRefused
             /\ Answered(last', Failure("No current session"))]_vars

\* C13 amended: the same, the answer "No current session" being given when
\* a paper manager exists; without one the answer is "Services not
\* initialized"
C13_TargetsSession ==
    [][/\ RatingTargetsSession
       /\ (RatingRefused /\ sessionService.session = Null) =>
             Answered(last', Failure(IF paperManager # Null
                                     THEN "No current session"
                                     ELSE "Services not initialized"))]_vars

C13_Witness ==
    \E i \in DOMAIN inflight :
        /\ inflight[i].type = "updateRating"
        /\ inflight[i].pc = "updateRating"
        /\ inflight[i].payload # Undefined
        /\ inflight[i].payload # sessionService.session
        /\ inflight[i].reqs[1].target = sessionService.session

---------------------------------------------------------------------------
(* C20: a rating response that arrives after the session changed *)

\* C20: when the store call of an updateRating completes while a session of
\* another paper is active, or after the metadata object the handler holds
\* left the cache, the cached metadata of the active session is not changed
C20_StaleRatingNotAssociated ==
    [][(/\ last'.type = "updateRating" /\ last'.reqs # <<>>
        /\ sessionService.session # Null
        /\ sessionService.session # last'.paper \/ ~last'.cached)
       => /\ sessionService'.session = sessionService.session
          /\ sessionService'.metadata[sessionService.session] =
                sessionService.metadata[sessionService.session]]_vars

C20_Witness ==
    /\ last.type = "updateRating"
    /\ Answered(last, Success)
    /\ sessionService.session # Null
    /\ sessionService.session # last.paper
    /\ sessionService.metadata[sessionService.session] = NoRating
    /\ sessionService.metadata[last.paper] = last.rating

---------------------------------------------------------------------------
(* The pure functions applied to inputs built from their parts: a URL is   *)
(* the concatenation of scheme, host, port, path and query; a repository   *)
(* setting is owner "/" name; a paper key is prefix, delimiter and id.     *)

Str_al == <<"a","l">>
Str_pf == <<"p","f">>

RepoSetting(owner, slash, name) ==
    [owner |-> owner, name |-> name, raw |-> owner \o slash \o name]

PureRepos ==
    {RepoSetting(Str_al, <<"/">>, Str_pf),
     RepoSetting(<<"A","l">>, <<"/">>, <<"P","F">>),
     RepoSetting(<<>>, <<>>, <<>>),
     RepoSetting(Str_al, <<>>, <<>>),
     RepoSetting(<<>>, <<"/">>, Str_pf)}

PureHosts ==
    {HostPagesA,
     <<"A","L">> \o <<".","G","i","t","H","u","b",".","I","O">>,
     HostEvil,
     <<"x">> \o HostPagesA,
     HostPagesA \o <<".">> \o HostEvil,
     Localhost,
     <<"L","o","c","a","l","H","o","s","t">>,
     Loopback}

PurePaths ==
    {<<>>,
     <<"/">>,
     <<"/">> \o Str_pf,
     <<"/">> \o Str_pf \o <<"/">>,
     <<"/">> \o Str_pf \o <<"/","a",".","h","t","m","l">>,
     <<"/","P","F","/">>,
     <<"/">> \o Str_pf \o <<"x">>,
     <<"/">> \o Str_pf \o <<"-","x","/">>,
     <<"/","x","/">> \o Str_pf \o <<"/">>}

PureQueries == {<<>>, <<"?","u","=","/">> \o Str_pf \o <<"/">>}

UrlOf(scheme, host, port, path, query) ==
    [given |-> TRUE, parses |-> scheme # <<>>, host |-> host, path |-> path,
     raw |-> JsString(scheme \o host \o port \o path \o query)]

PureUrls ==
    {UrlOf(SchemeHttps, host, <<>>, path, query) :
        host \in PureHosts, path \in PurePaths, query \in PureQueries}
    \cup {UrlOf(SchemeHttp, Localhost, <<":","5","1","7","3">>, <<"/">>, <<>>),
          UrlOf(<<>>, HostPagesA, <<>>, <<"/">> \o Str_pf \o <<"/">>, <<>>),
          UrlOf(<<>>, Localhost, <<>>, <<>>, <<>>),
          [given |-> FALSE, parses |-> FALSE, host |-> <<>>, path |-> <<>>,
           raw |-> Undefined],
          [given |-> FALSE, parses |-> FALSE, host |-> <<>>, path |-> <<>>,
           raw |-> JsString(<<>>)]}

PaperKeyOf(prefix, style, id) ==
    [style |-> style, id |-> id, raw |-> prefix \o id]

PureIds == {<<"7">>, <<"8">>, <<>>, <<"w",".","1">>, <<":","7">>, <<"7"," ">>}

PurePaperKeys ==
    {PaperKeyOf(PaperColon, ":", id) : id \in PureIds}
    \cup {PaperKeyOf(PaperDot, ".", id) : id \in PureIds}
    \cup {PaperKeyOf(prefix, "none", <<"7">>) :
            prefix \in {<<>>, <<"p","a","p","e","r">>, <<"P","a","p","e","r",":">>,
                        <<"x">> \o PaperColon, <<"p","a","p","e","r","s",":">>,
                        InteractionsColon, <<"p","a","p","e","r","-">>}}

InitPure ==
    /\ sourceManager = initializeSources
    /\ githubToken = <<>>
    /\ githubRepo \in {r.raw : r \in PureRepos}
    /\ paperManager = Null
    /\ sessionService = NewSessionService(Null)
    /\ inflight = <<>>
    /\ last = NoExchange

ApplyIsTrustedFrontendUrl ==
    /\ Ready
    /\ \E url \in PureUrls :
          last' = [type |-> "isTrustedFrontendUrl", url |-> url,
                   result |-> isTrustedFrontendUrl(url.raw)]
    /\ UNCHANGED <<sourceManager, githubToken, githubRepo, paperManager, sessionService, inflight>>

ApplyToInteractionObjectId ==
    /\ Ready
    /\ \E key1 \in PurePaperKeys, key2 \in PurePaperKeys :
          last' = [type |-> "toInteractionObjectId", key1 |-> key1, key2 |-> key2,
                   result1 |-> toInteractionObjectId(key1.raw),
                   result2 |-> toInteractionObjectId(key2.raw)]
    /\ UNCHANGED <<sourceManager, githubToken, githubRepo, paperManager, sessionService, inflight>>

NextPure == ApplyIsTrustedFrontendUrl \/ ApplyToInteractionObjectId \/ EndOfTurn

SpecPure == InitPure /\ [][NextPure]_vars

---------------------------------------------------------------------------
(* C2: isTrustedFrontendUrl *)

ConfiguredRepo == CHOOSE r \in PureRepos : r.raw = githubRepo

LocalDevHosts == {Localhost, Loopback}

NestedUnder(path, name) ==
    \/ path = <<"/">> \o name
    \/ StartsWith(path, <<"/">> \o name \o <<"/">>)

\* C2 as stated: trusted exactly when the sender URL is present and parses,
\* and either its host is <owner>.github.io (case-insensitive) with a path
\* equal to or nested under /<repo>, or its host is localhost or 127.0.0.1
C2_AsStated ==
    last.type = "isTrustedFrontendUrl" =>
        (last.result <=>
            /\ last.url.given /\ last.url.parses
            /\ \/ /\ ToLowerCase(last.url.host) =
                        ToLowerCase(ConfiguredRepo.owner) \o GitHubIo
                  /\ NestedUnder(last.url.path, ConfiguredRepo.name)
               \/ ToLowerCase(last.url.host) \in LocalDevHosts)

\* C2 amended: the same provided githubRepo holds a non-empty owner and a
\* non-empty repo name, the path being compared case-insensitively as well;
\* with githubRepo empty or lacking owner or name every URL is untrusted,
\* a local-development host included
C2_TrustedExactly ==
    last.type = "isTrustedFrontendUrl" =>
        (last.result <=>
            /\ last.url.given /\ last.url.parses
            /\ ConfiguredRepo.owner # <<>> /\ ConfiguredRepo.name # <<>>
            /\ \/ /\ ToLowerCase(last.url.host) =
                        ToLowerCase(ConfiguredRepo.owner) \o GitHubIo
                  /\ NestedUnder(ToLowerCase(last.url.path),
                                 ToLowerCase(ConfiguredRepo.name))
               \/ ToLowerCase(last.url.host) \in LocalDevHosts)

C2_Witness ==
    /\ last.type = "isTrustedFrontendUrl"
    /\ last.result
    /\ githubRepo = <<"A","l","/","P","F">>
    /\ last.url.host = HostPagesA
    /\ last.url.path = <<"/">> \o Str_pf \o <<"/","a",".","h","t","m","l">>

---------------------------------------------------------------------------
(* C9: toInteractionObjectId *)

IsPaperKey(key) == key.style \in {":", "."}

\* C9: paper:<id> gives interactions:<id>, paper.<id> gives interactions.<id>,
\* any other key gives null, and two different paper keys never give the
\* same interaction key
C9_InteractionKey ==
    last.type = "toInteractionObjectId" =>
        /\ last.key1.style = ":" =>
              last.result1 = JsString(InteractionsColon \o last.key1.id)
        /\ last.key1.style = "." =>
              last.result1 = JsString(InteractionsDot \o last.key1.id)
        /\ last.key1.style = "none" => last.result1 = Null
        /\ (/\ IsPaperKey(last.key1) /\ IsPaperKey(last.key2)
            /\ last.key1.raw # last.key2.raw)
              => last.result1 # last.result2

C9_Witness ==
    /\ last.type = "toInteractionObjectId"
    /\ last.key1.raw = PaperColon \o <<"w",".","1">>
    /\ last.key2.raw = PaperDot \o <<"w",".","1">>
    /\ last.result1 = JsString(InteractionsColon \o <<"w",".","1">>)
    /\ last.result2 = JsString(InteractionsDot \o <<"w",".","1">>)

---------------------------------------------------------------------------
(* The registry and the integrations applied to URLs built from their      *)
(* parts: scheme and host prefix, the site's path prefix, the identifier   *)
(* and what follows it.  owners gives, for each integration at hand whose  *)
(* pattern the URL is built to match, the identifier it is to capture.     *)

SourceUrl(front, site, id, owners) ==
    [front |-> front, site |-> site, id |-> id, owners |-> owners]

SiteIeee == <<"i","e","e","e","x","p","l","o","r","e",".","i","e","e","e",".","o","r","g","/","d","o","c","u","m","e","n","t","/">>
SiteNber == <<"n","b","e","r",".","o","r","g","/","p","a","p","e","r","s","/">>
SiteAcl == <<"a","c","l","a","n","t","h","o","l","o","g","y",".","o","r","g","/">>
FrontPlain == <<"h","t","t","p","s",":","/","/">>
FrontWww == <<"h","t","t","p","s",":","/","/","w","w","w",".">>
FrontQuery == <<"h","t","t","p","s",":","/","/","e","x","a","m","p","l","e",".","c","o","m","/","?","u","=">>

\* URLs with an identifier the pattern of one integration captures
IdentifiedUrls ==
    {SourceUrl(front, SiteIeee, id, "ieeeIntegration" :> id) :
        front \in {FrontPlain, FrontQuery}, id \in {<<"9","0","5","4","6","4","3">>, <<"7">>}}
    \cup {SourceUrl(front, SiteNber, id, "nberIntegration" :> id) :
        front \in {FrontWww}, id \in {<<"w","1","2">>, <<"4","2">>}}
    \cup {SourceUrl(front, SiteAcl, id, "aclAnthologyIntegration" :> id) :
        front \in {FrontPlain},
        id \in {<<"2","0","2","3",".","a","c","l","-","l","o","n","g",".","1">>, <<"P","1","9","-","1","0","0","1">>}}

\* URLs of the same sites without an identifier the pattern captures
UnidentifiedUrls ==
    {SourceUrl(FrontPlain, SiteIeee, id, <<>>) : id \in {<<>>, <<"x","7">>}}
    \cup {SourceUrl(FrontWww, SiteNber, id, <<>>) : id \in {<<"w">>, <<"x","1">>}}
    \cup {SourceUrl(FrontPlain, SiteAcl, id, <<>>) :
            id \in {<<>>, <<"P">>, <<"e","v","e","n","t","s">>}}
    \cup {SourceUrl(FrontPlain, <<"i","e","e","e","x","p","l","o","r","e",".","i","e","e","e",".","o","r","g","/","a","b","s","t","r","a","c","t","/","d","o","c","u","m","e","n","t","/">>, <<"7">>, <<>>)}

\* URLs of the newspapers and of no registered site
OtherUrls ==
    {SourceUrl(FrontWww, <<"n","y","t","i","m","e","s",".","c","o","m","/">>,
               <<"2","0","2","3","/","0","5","/","0","1","/","t","e","c","h","/","a","i",".","h","t","m","l">>, "newspapersIntegration" :> <<>>),
     SourceUrl(FrontWww, <<"n","y","t","i","m","e","s",".","c","o","m","/">>,
               <<"s","e","c","t","i","o","n","/","t","e","c","h">>, <<>>),
     SourceUrl(FrontWww, <<"n","e","w","y","o","r","k","e","r",".","c","o","m","/">>,
               <<"m","a","g","a","z","i","n","e","/","2","0","2","3","/","a","i">>, "newspapersIntegration" :> <<>>),
     SourceUrl(FrontWww, <<"t","h","e","p","a","r","i","s","r","e","v","i","e","w",".","o","r","g","/">>,
               <<"b","l","o","g","/","2","0","2","3","/","a","i">>, "newspapersIntegration" :> <<>>),
     SourceUrl(FrontPlain, <<"e","x","a","m","p","l","e",".","c","o","m","/">>, <<"p","a","g","e">>, <<>>),
     SourceUrl(FrontPlain, SiteAcl, <<"X","1","/","?","r","=","n","b","e","r",".","o","r","g","/","p","a","p","e","r","s","/","w","1">>,
               "aclAnthologyIntegration" :> <<"X","1">> @@ "nberIntegration" :> <<"w","1">>)}

\* what may follow the identifier: nothing, a slash, a query, a fragment
UrlSuffixes == {<<>>, <<"/">>, <<"?","a","=","1">>, <<"/","?","a","=","1">>, <<"#","t">>}

\* the integrations whose patterns are not at hand claim the URL or not
ClaimedBy == SUBSET {"arxivIntegration", "pnasIntegration", "miscIntegration"}

RawUrl(u, suffix) == u.front \o u.site \o u.id \o suffix

InitSources ==
    /\ sourceManager = initializeSources
    /\ githubToken = <<>>
    /\ githubRepo = <<>>
    /\ paperManager = Null
    /\ sessionService = NewSessionService(Null)
    /\ inflight = <<>>
    /\ last = NoExchange

ApplyGetSourceForUrl ==
    /\ Ready
    /\ \E u \in IdentifiedUrls \cup UnidentifiedUrls \cup OtherUrls,
          suffix \in UrlSuffixes, claimedBy \in ClaimedBy :
          last' = [type |-> "getSourceForUrl", url |-> u, suffix |-> suffix,
                   claimedBy |-> claimedBy,
                   result |-> getSourceForUrl([raw |-> RawUrl(u, suffix),
                                               claimedBy |-> claimedBy])]
    /\ UNCHANGED <<sourceManager, githubToken, githubRepo, paperManager, sessionService,
                   inflight>>

ApplyExtractPaperId ==
    /\ Ready
    /\ \E integration \in {"aclAnthologyIntegration", "ieeeIntegration", "nberIntegration"},
          u \in IdentifiedUrls \cup UnidentifiedUrls \cup OtherUrls,
          suffix1 \in UrlSuffixes, suffix2 \in UrlSuffixes :
          LET Id(url) ==
                CASE integration = "aclAnthologyIntegration" ->
                        AclAnthologyIntegration_extractPaperId(url)
                  [] integration = "ieeeIntegration" ->
                        IeeeIntegration_extractPaperId(url)
                  [] integration = "nberIntegration" ->
                        NberIntegration_extractPaperId(url)
          IN  last' = [type |-> "extractPaperId", integration |-> integration,
                       url |-> u, suffix1 |-> suffix1, suffix2 |-> suffix2,
                       result1 |-> Id(RawUrl(u, suffix1)),
                       result2 |-> Id(RawUrl(u, suffix2))]
    /\ UNCHANGED <<sourceManager, githubToken, githubRepo, paperManager, sessionService,
                   inflight>>

NextSources == ApplyGetSourceForUrl \/ ApplyExtractPaperId \/ EndOfTurn

SpecSources == InitSources /\ [][NextSources]_vars

---------------------------------------------------------------------------
(* C14: registry resolution *)

CatchAll == "miscIntegration"

\* the integrations other than the catch-all that can handle the URL
SpecificFor(x) == DOMAIN x.url.owners \cup (x.claimedBy \ {CatchAll})

\* C14: the catch-all is the last registered integration and registered
\* once; resolution returns the first registered integration that can handle
\* the URL, hence never the catch-all when a specific one can, and the
\* catch-all when none can
C14_CatchAllLast ==
    /\ sourceManager # <<>>
    /\ \A i \in DOMAIN sourceManager :
          sourceManager[i] = CatchAll <=> i = Len(sourceManager)
    /\ last.type = "getSourceForUrl" =>
          IF SpecificFor(last) = {}
          THEN last.result = CatchAll
          ELSE \E i \in DOMAIN sourceManager :
                  /\ last.result = sourceManager[i]
                  /\ last.result \in SpecificFor(last)
                  /\ \A j \in 1..(i - 1) : sourceManager[j] \notin SpecificFor(last)

C14_Witness ==
    /\ last.type = "getSourceForUrl"
    /\ DOMAIN last.url.owners = {"ieeeIntegration"}
    /\ last.url.front = FrontPlain
    /\ last.claimedBy = {"miscIntegration"}
    /\ last.result = "ieeeIntegration"

---------------------------------------------------------------------------
(* C15: extractPaperId *)

\* C15: extractPaperId of the IEEE, NBER and ACL Anthology integrations gives
\* the identifier the URL is built around when the URL is one of its own
\* with an identifier, and null otherwise; the result is not empty and is
\* the same whether or not a slash, a query or a fragment follows
C15_PaperIdFromUrl ==
    last.type = "extractPaperId" =>
        /\ last.result1 = (IF last.integration \in DOMAIN last.url.owners
                           THEN JsString(last.url.owners[last.integration])
                           ELSE Null)
        /\ last.result1 # JsString(<<>>)
        /\ last.result2 = last.result1

C15_Witness ==
    /\ last.type = "extractPaperId"
    /\ last.integration = "ieeeIntegration"
    /\ last.url.front = FrontPlain /\ last.url.site = SiteIeee
    /\ last.suffix1 = <<"/">> /\ last.suffix2 = <<"?","a","=","1">>
    /\ last.result1 = JsString(<<"9","0","5","4","6","4","3">>)
    /\ last.result2 = last.result1

---------------------------------------------------------------------------
(* The metadata extractors applied to documents.  A document is built from *)
(* the markers a field rule reads: each marker is left out, put in empty,  *)
(* or put in with its value.                                               *)

MetaMarker(attr, key, value) ==
    [kind |-> "meta", attr |-> attr, key |-> key, value |-> value]

ElementMarker(tag, class, inside, value) ==
    [kind |-> "element", tag |-> tag, class |-> class, inside |-> inside,
     value |-> value]

\* what the rule of the base extractor yields for the field
BaseMarker(value) == [kind |-> "base", value |-> value]

Fields == {"title", "authors", "description", "publishedDate", "doi", "journalName"}

RECURSIVE MarkedMetas(_, _, _)
MarkedMetas(markers, marking, i) ==
    IF i > Len(markers) THEN <<>>
    ELSE LET m == markers[i]
         IN  (IF m.kind = "meta" /\ marking[i] # "absent"
              THEN <<Meta(m.attr, m.key,
                          CASE marking[i] = "present" -> JsString(m.value)
                            [] marking[i] = "empty" -> JsString(<<>>)
                            [] marking[i] = "nocontent" -> Null)>>
              ELSE <<>>)
             \o MarkedMetas(markers, marking, i + 1)

RECURSIVE MarkedElements(_, _, _)
MarkedElements(markers, marking, i) ==
    IF i > Len(markers) THEN <<>>
    ELSE LET m == markers[i]
         IN  (IF m.kind = "element" /\ marking[i] # "absent"
              THEN <<Element(m.tag, m.class, m.inside,
                             IF marking[i] = "present"
                             THEN <<" ">> \o m.value \o <<"\n">>
                             ELSE <<" ">>)>>
              ELSE <<>>)
             \o MarkedElements(markers, marking, i + 1)

MarkedBase(markers, marking, field) ==
    [f \in Fields |->
        IF \E i \in DOMAIN markers : /\ markers[i].kind = "base"
                                     /\ marking[i] = "present"
                                     /\ f = field
        THEN (CHOOSE m \in {markers[i] : i \in DOMAIN markers} : m.kind = "base").value
        ELSE <<>>]

Document(markers, marking, field) ==
    [metas |-> MarkedMetas(markers, marking, 1),
     elements |-> MarkedElements(markers, marking, 1),
     base |-> MarkedBase(markers, marking, field)]

Markings(markers) == [DOMAIN markers -> {"absent", "empty", "present"}]

ClassAbstractContent == <<"u","-","m","b","-","1"," ","a","b","s","t","r","a","c","t","-","c","o","n","t","e","n","t">>
ClassCard == <<"a","u","t","h","o","r","-","c","a","r","d"," ","t","e","x","t","-","b","a","s","e">>

\* the markers each field rule reads, in the order the rule reads them
RuleMarkers ==
    [NberMetadataExtractor |->
        [title |-> <<MetaMarker("name", "citation_title", <<"c","t">>), MetaMarker("property", "og:title", <<"o","g">>), BaseMarker(<<"b","a","s","e">>)>>,
         authors |-> <<MetaMarker("name", "citation_author", <<"c","a">>), BaseMarker(<<"b","a","s","e">>)>>,
         description |-> <<MetaMarker("name", "citation_abstract", <<"c","a","b">>), MetaMarker("property", "og:description", <<"o","g","d">>), MetaMarker("name", "description", <<"m","d">>), BaseMarker(<<"b","a","s","e">>)>>,
         publishedDate |-> <<MetaMarker("name", "citation_publication_date", <<"c","p","d">>), MetaMarker("name", "citation_date", <<"c","d">>), BaseMarker(<<"b","a","s","e">>)>>,
         doi |-> <<MetaMarker("name", "citation_doi", <<"d","o","i">>), BaseMarker(<<"b","a","s","e">>)>>,
         journalName |-> <<>>],
     AclAnthologyMetadataExtractor |->
        [title |-> <<MetaMarker("name", "citation_title", <<"c","t">>), MetaMarker("property", "og:title", <<"o","g">>), BaseMarker(<<"b","a","s","e">>)>>,
         authors |-> <<MetaMarker("name", "citation_author", <<"c","a">>), BaseMarker(<<"b","a","s","e">>)>>,
         description |-> <<ElementMarker("span", ClassAclAbstract, {}, <<"d","o","m">>), MetaMarker("name", "citation_abstract", <<"c","a","b">>), MetaMarker("property", "og:description", <<"o","g","d">>), BaseMarker(<<"b","a","s","e">>)>>,
         publishedDate |-> <<MetaMarker("name", "citation_publication_date", <<"c","p","d">>), MetaMarker("name", "citation_date", <<"c","d">>), BaseMarker(<<"b","a","s","e">>)>>,
         doi |-> <<MetaMarker("name", "citation_doi", <<"d","o","i">>), BaseMarker(<<"b","a","s","e">>)>>,
         journalName |-> <<MetaMarker("name", "citation_conference_title", <<"c","c","t">>), MetaMarker("name", "citation_journal_title", <<"c","j","t">>), BaseMarker(<<"b","a","s","e">>)>>],
     IeeeMetadataExtractor |->
        [title |-> <<MetaMarker("name", "citation_title", <<"c","t">>), MetaMarker("property", "og:title", <<"o","g">>), BaseMarker(<<"b","a","s","e">>)>>,
         authors |-> <<MetaMarker("name", "citation_author", <<"c","a">>), ElementMarker("span", ClassAuthorName, {ClassAuthorsInfo}, <<"d","o","m">>), ElementMarker("a", ClassName, {ClassCard}, <<"c","a","r","d">>), BaseMarker(<<"b","a","s","e">>)>>,
         description |-> <<MetaMarker("name", "citation_abstract", <<"c","a","b">>), MetaMarker("property", "og:description", <<"o","g","d">>), ElementMarker("div", ClassAbstractContent, {}, <<"d","o","m">>), BaseMarker(<<"b","a","s","e">>)>>,
         publishedDate |-> <<MetaMarker("name", "citation_publication_date", <<"c","p","d">>), MetaMarker("name", "citation_date", <<"c","d">>), BaseMarker(<<"b","a","s","e">>)>>,
         doi |-> <<MetaMarker("name", "citation_doi", <<"d","o","i">>), BaseMarker(<<"b","a","s","e">>)>>,
         journalName |-> <<MetaMarker("name", "citation_journal_title", <<"c","j","t">>), MetaMarker("name", "citation_conference_title", <<"c","c","t">>), BaseMarker(<<"b","a","s","e">>)>>],
     NewspapersMetadataExtractor |->
        [title |-> <<MetaMarker("property", "og:title", <<"o","g">>), MetaMarker("name", "citation_title", <<"c","t">>), MetaMarker("name", "title", <<"m","t">>), BaseMarker(<<"b","a","s","e">>)>>,
         authors |-> <<MetaMarker("property", "article:author", <<"a","a">>), MetaMarker("name", "author", <<"m","a">>), MetaMarker("name", "byl", <<"J","o"," ","R","o","e">>), BaseMarker(<<"b","a","s","e">>)>>,
         description |-> <<MetaMarker("property", "og:description", <<"o","g","d">>), MetaMarker("name", "description", <<"m","d">>), BaseMarker(<<"b","a","s","e">>)>>,
         publishedDate |-> <<MetaMarker("name", "pdate", <<"p","d">>), MetaMarker("property", "article:published_time", <<"a","p","t">>), MetaMarker("name", "date", <<"d","a","t","e">>), BaseMarker(<<"b","a","s","e">>)>>,
         journalName |-> <<MetaMarker("property", "og:site_name", <<"o","s","n">>), BaseMarker(<<"b","a","s","e">>)>>]]

Extractors == DOMAIN RuleMarkers

NberJournalName == <<"N","B","E","R"," ","W","o","r","k","i","n","g"," ","P","a","p","e","r","s">>

NberMetadataExtractor_extractJournalName(document) == NberJournalName

ExtractField(extractor, field, document) ==
    CASE extractor = "NberMetadataExtractor" ->
            (CASE field = "title" -> NberMetadataExtractor_extractTitle(document)
               [] field = "authors" -> NberMetadataExtractor_extractAuthors(document)
               [] field = "description" -> NberMetadataExtractor_extractDescription(document)
               [] field = "publishedDate" -> NberMetadataExtractor_extractPublishedDate(document)
               [] field = "doi" -> NberMetadataExtractor_extractDoi(document)
               [] field = "journalName" -> NberMetadataExtractor_extractJournalName(document)
               [] field = "tags" -> NberMetadataExtractor_extractTags(document))
      [] extractor = "AclAnthologyMetadataExtractor" ->
            (CASE field = "title" -> AclAnthologyMetadataExtractor_extractTitle(document)
               [] field = "authors" -> AclAnthologyMetadataExtractor_extractAuthors(document)
               [] field = "description" -> AclAnthologyMetadataExtractor_extractDescription(document)
               [] field = "publishedDate" -> AclAnthologyMetadataExtractor_extractPublishedDate(document)
               [] field = "doi" -> AclAnthologyMetadataExtractor_extractDoi(document)
               [] field = "journalName" -> AclAnthologyMetadataExtractor_extractJournalName(document)
               [] field = "tags" -> AclAnthologyMetadataExtractor_extractTags(document))
      [] extractor = "IeeeMetadataExtractor" ->
            (CASE field = "title" -> IeeeMetadataExtractor_extractTitle(document)
               [] field = "authors" -> IeeeMetadataExtractor_extractAuthors(document)
               [] field = "description" -> IeeeMetadataExtractor_extractDescription(document)
               [] field = "publishedDate" -> IeeeMetadataExtractor_extractPublishedDate(document)
               [] field = "doi" -> IeeeMetadataExtractor_extractDoi(document)
               [] field = "journalName" -> IeeeMetadataExtractor_extractJournalName(document)
               [] field = "tags" -> IeeeMetadataExtractor_extractTags(document))
      [] extractor = "NewspapersMetadataExtractor" ->
            (CASE field = "title" -> NewspapersMetadataExtractor_extractTitle(document)
               [] field = "authors" -> NewspapersMetadataExtractor_extractAuthors(document)
               [] field = "description" -> NewspapersMetadataExtractor_extractDescription(document)
               [] field = "publishedDate" -> NewspapersMetadataExtractor_extractPublishedDate(document)
               [] field = "journalName" -> NewspapersMetadataExtractor_extractJournalName(document)
               [] field = "tags" -> NewspapersMetadataExtractor_extractTags(document))

Extracted(extractor, field, markers, marking) ==
    LET document == Document(markers, marking, field)
    IN  [type |-> "extract", extractor |-> extractor, field |-> field,
         markers |-> markers, marking |-> marking, document |-> document,
         result |-> ExtractField(extractor, field, document)]

ApplyRule(extractor, field) ==
    \E marking \in Markings(RuleMarkers[extractor][field]) :
        last' = Extracted(extractor, field, RuleMarkers[extractor][field], marking)

Frame == UNCHANGED <<sourceManager, githubToken, githubRepo, paperManager,
                     sessionService, inflight>>

ApplyExtractTitle ==
    /\ Ready
    /\ \E extractor \in Extractors : ApplyRule(extractor, "title")
    /\ Frame

ApplyExtractDescription ==
    /\ Ready
    /\ \E extractor \in Extractors : ApplyRule(extractor, "description")
    /\ Frame

ApplyExtractPublishedDate ==
    /\ Ready
    /\ \E extractor \in Extractors : ApplyRule(extractor, "publishedDate")
    /\ Frame

ApplyExtractDoi ==
    /\ Ready
    /\ \E extractor \in Extractors \ {"NewspapersMetadataExtractor"} :
          ApplyRule(extractor, "doi")
    /\ Frame

ApplyExtractJournalName ==
    /\ Ready
    /\ \E extractor \in Extractors : ApplyRule(extractor, "journalName")
    /\ Frame

MaxAuthorTags == 3

AuthorSmith == <<"A","."," ","S","m","i","t","h">>
AuthorLee == <<"B","."," ","L","e","e">>

\* up to MaxAuthorTags citation_author tags in document order
AuthorTagMarkers ==
    UNION {[1..n -> {MetaMarker("name", "citation_author", AuthorSmith),
                     MetaMarker("name", "citation_author", AuthorLee)}] :
           n \in 0..MaxAuthorTags}

\* the bylines of the newspaper documents
Bylines ==
    {<<"B","y"," ","J","o"," ","R","o","e">>,
     <<"b","y"," ","J","o"," ","R","o","e">>,
     <<"B","Y"," ","J","o"," ","R","o","e">>,
     <<"b","Y"," ","J","o"," ","R","o","e">>,
     <<"J","o"," ","R","o","e">>,
     <<"A","l",","," ","B","y"," ","J","o">>,
     <<" ","B","y"," ","J","o">>,
     <<"B","y","r","o","n"," ","R","o","e">>,
     <<"B","y"," "," ","J","o"," ","R","o","e">>,
     <<"B","y","\t","J","o"," ","R","o","e">>,
     <<"B","y"," ","\n"," ","J","o">>,
     <<"B","y"," ">>,
     <<"B","y">>}

\* documents for extractAuthors: several citation_author tags followed by
\* the other markers of the rule; for the newspapers a byline of Bylines
AuthorInputs(extractor) ==
    IF extractor = "NewspapersMetadataExtractor"
    THEN {[RuleMarkers[extractor].authors EXCEPT ![3].value = byl] : byl \in Bylines}
    ELSE {tags \o Tail(RuleMarkers[extractor].authors) : tags \in AuthorTagMarkers}

AuthorMarkings(markers) ==
    {marking \in [DOMAIN markers -> {"absent", "nocontent", "empty", "present"}] :
        \A i \in DOMAIN markers :
            /\ markers[i].kind = "meta" /\ markers[i].key = "citation_author"
                  => marking[i] # "absent"
            /\ markers[i].kind = "meta" /\ markers[i].key = "byl"
                  => marking[i] = "present"
            /\ markers[i].kind # "meta" \/ markers[i].key \notin {"citation_author", "byl"}
                  => marking[i] \in {"absent", "present"}}

ApplyExtractAuthors ==
    /\ Ready
    /\ \E extractor \in Extractors :
          \/ ApplyRule(extractor, "authors")
          \/ \E markers \in AuthorInputs(extractor) :
                \E marking \in AuthorMarkings(markers) :
                    last' = Extracted(extractor, "authors", markers, marking)
    /\ Frame

MaxKeywordsLen == 4

KeywordChars == {"a", "b", ",", ";", " "}

RECURSIVE StringsOfLength(_)
StringsOfLength(n) ==
    IF n = 0 THEN {<<>>}
    ELSE {Append(s, c) : s \in StringsOfLength(n - 1), c \in KeywordChars}

\* every keywords string of up to MaxKeywordsLen characters
KeywordStrings == UNION {StringsOfLength(n) : n \in 0..MaxKeywordsLen}

\* the meta elements each extractTags reads, in the order it reads them
TagMarkers(keywords) ==
    [NberMetadataExtractor |-> <<MetaMarker("name", "keywords", keywords)>>,
     AclAnthologyMetadataExtractor |-> <<MetaMarker("name", "keywords", keywords)>>,
     IeeeMetadataExtractor |-> <<MetaMarker("name", "citation_keywords", keywords),
                                 MetaMarker("name", "keywords", keywords)>>,
     NewspapersMetadataExtractor |-> <<MetaMarker("name", "news_keywords", keywords),
                                       MetaMarker("name", "keywords", keywords),
                                       MetaMarker("property", "article:tag", keywords)>>]

ApplyExtractTags ==
    /\ Ready
    /\ \E extractor \in Extractors, keywords \in KeywordStrings :
          LET markers == TagMarkers(keywords)[extractor]
          IN  \E marking \in [DOMAIN markers -> {"absent", "present"}] :
                 last' = Extracted(extractor, "tags", markers, marking)
    /\ Frame

InitExtract ==
    /\ sourceManager = initializeSources
    /\ githubToken = <<>>
    /\ githubRepo = <<>>
    /\ paperManager = Null
    /\ sessionService = NewSessionService(Null)
    /\ inflight = <<>>
    /\ last = NoExchange

NextExtract ==
    \/ ApplyExtractTitle
    \/ ApplyExtractAuthors
    \/ ApplyExtractDescription
    \/ ApplyExtractPublishedDate
    \/ ApplyExtractDoi
    \/ ApplyExtractJournalName
    \/ ApplyExtractTags
    \/ EndOfTurn

SpecExtract == InitExtract /\ [][NextExtract]_vars

\* the values of the markers put in with their value, in document order
PresentValues(markers, marking, Test(_)) ==
    LET indices == [i \in DOMAIN markers |-> i]
        Chosen(i) == marking[i] = "present" /\ Test(markers[i])
        chosen == SelectSeq(indices, Chosen)
    IN  [k \in DOMAIN chosen |-> markers[chosen[k]].value]

IsCitationAuthor(m) == m.kind = "meta" /\ m.key = "citation_author"

RECURSIVE CommaJoined(_)
CommaJoined(names) ==
    IF names = <<>> THEN <<>>
    ELSE IF Len(names) = 1 THEN names[1]
    ELSE CommaJoined(SubSeq(names, 1, Len(names) - 1)) \o <<",", " ">> \o names[Len(names)]

---------------------------------------------------------------------------
(* C16: all citation_author tags are joined *)

\* C16: in the ACL Anthology, IEEE and NBER extractors extractAuthors
\* returns the non-empty contents of all citation_author tags, in document
\* order, joined with ", "; it uses a fallback rule only when no tag has
\* non-empty content
C16_AuthorsJoined ==
    (/\ last.type = "extract"
     /\ last.field = "authors"
     /\ last.extractor # "NewspapersMetadataExtractor")
    => LET names == PresentValues(last.markers, last.marking, IsCitationAuthor)
           IsElement(m) == m.kind = "element"
           IsBase(m) == m.kind = "base"
           selected == PresentValues(last.markers, last.marking, IsElement)
           base == PresentValues(last.markers, last.marking, IsBase)
       IN  IF names # <<>>
           THEN last.result = CommaJoined(names)
           ELSE last.result \in {CommaJoined(selected), CommaJoined(base)}

C16_Witness ==
    /\ last.type = "extract"
    /\ last.field = "authors"
    /\ last.extractor = "IeeeMetadataExtractor"
    /\ PresentValues(last.markers, last.marking, IsCitationAuthor) = <<AuthorSmith, AuthorLee>>
    /\ \E i \in DOMAIN last.markers :
          last.markers[i].kind = "element" /\ last.marking[i] = "present"
    /\ last.result = <<"A","."," ","S","m","i","t","h",","," ","B","."," ","L","e","e">>

---------------------------------------------------------------------------
(* C17: extractTags trims the tokens and drops the empty ones *)

\* the tokens of s between delimiters, trimmed, without the empty ones
RECURSIVE TrimmedTokens(_, _, _)
TrimmedTokens(s, delimiters, token) ==
    LET finished == IF Trim(token) = <<>> THEN <<>> ELSE <<Trim(token)>>
    IN  IF s = <<>> THEN finished
        ELSE IF Head(s) \in delimiters
        THEN finished \o TrimmedTokens(Tail(s), delimiters, <<>>)
        ELSE TrimmedTokens(Tail(s), delimiters, Append(token, Head(s)))

Delimiters(extractor) ==
    IF extractor = "IeeeMetadataExtractor" THEN {",", ";"} ELSE {","}

\* the keywords string the document carries, '' when it carries none
KeywordsOf(exchange) ==
    LET IsMeta(m) == m.kind = "meta"
        carried == PresentValues(exchange.markers, exchange.marking, IsMeta)
    IN  IF carried = <<>> THEN <<>> ELSE carried[1]

\* C17: in every extractor variant extractTags returns the tokens of the
\* keywords string between the delimiters of the source (comma; comma or
\* semicolon for IEEE), each trimmed, in order, with the empty tokens
\* dropped: no returned tag is empty or starts or ends with white space
C17_AsStated ==
    (last.type = "extract" /\ last.field = "tags")
    => /\ last.result = TrimmedTokens(KeywordsOf(last), Delimiters(last.extractor), <<>>)
       /\ \A i \in DOMAIN last.result :
             /\ last.result[i] # <<>>
             /\ last.result[i][1] \notin WhiteSpace
             /\ last.result[i][Len(last.result[i])] \notin WhiteSpace

---------------------------------------------------------------------------
(* C18: the priority order of the markers of a field *)

\* the citation-style and the site-specific meta elements
SourceSpecificKeys ==
    {"citation_title", "citation_author", "citation_abstract",
     "citation_publication_date", "citation_date", "citation_doi",
     "citation_conference_title", "citation_journal_title", "byl", "pdate"}

\* 1: source-specific marker (citation-style or site-specific meta element,
\* DOM selector); 2: OpenGraph and generic meta conventions; 3: base rule
Priority(m) ==
    CASE m.kind = "element" -> 1
      [] m.kind = "base" -> 3
      [] m.kind = "meta" -> IF m.key \in SourceSpecificKeys THEN 1 ELSE 2

\* the values of the present markers of the highest priority among them
Preferred(exchange) ==
    LET present == {i \in DOMAIN exchange.markers : exchange.marking[i] = "present"}
        best == CHOOSE p \in 1..3 :
                   /\ \E i \in present : Priority(exchange.markers[i]) = p
                   /\ \A i \in present : Priority(exchange.markers[i]) >= p
        IsBest(m) == Priority(m) = best
    IN  PresentValues(exchange.markers, exchange.marking, IsBest)

SomePresent(exchange) == \E i \in DOMAIN exchange.marking : exchange.marking[i] = "present"

\* C18: in every extractor variant, on a document where markers of the field
\* are present and non-empty, the rule yields the value of a marker of the
\* highest priority present: source-specific before OpenGraph and generic
\* meta conventions before the base rule (several elements of one selector
\* are joined); with a single marker present it yields that marker's value
C18_AsStated ==
    (/\ last.type = "extract"
     /\ last.field \in Fields
     /\ last.markers = RuleMarkers[last.extractor][last.field]
     /\ SomePresent(last))
    => LET preferred == Preferred(last)
       IN  last.result \in {preferred[i] : i \in DOMAIN preferred}
                             \cup {CommaJoined(preferred)}

---------------------------------------------------------------------------
(* C19: the "By" prefix of a newspaper byline *)

\* the newspapers' extractAuthors took the author string from the byline:
\* neither article:author nor meta author has content, meta byl has
BylineTaken ==
    /\ last.type = "extract"
    /\ last.field = "authors"
    /\ last.extractor = "NewspapersMetadataExtractor"
    /\ \A i \in DOMAIN last.markers :
          /\ last.markers[i].kind = "meta" /\ last.markers[i].key \in {"article:author", "author"}
                => last.marking[i] # "present"
          /\ last.markers[i].kind = "meta" /\ last.markers[i].key = "byl"
                => last.marking[i] = "present"

Byline == (CHOOSE m \in {last.markers[i] : i \in DOMAIN last.markers} :
              m.kind = "meta" /\ m.key = "byl").value

\* C19 as stated: a leading "By " in any letter case is removed, and a
\* byline without that prefix is returned unchanged
C19_AsStated ==
    BylineTaken
    => IF StartsWith(ToLowerCase(Byline), <<"b", "y", " ">>)
       THEN last.result = Slice(Byline, 3)
       ELSE last.result = Byline

\* C19: a leading "By" in any letter case followed by at least one white
\* space character is removed together with all the white space that
\* follows it; any other byline is returned unchanged
C19_ByAndWhiteSpaceStripped ==
    BylineTaken
    => IF /\ Len(Byline) >= 3
          /\ ToLowerCase(SubSeq(Byline, 1, 2)) = <<"b", "y">>
          /\ Byline[3] \in WhiteSpace
       THEN last.result = TrimStart(Slice(Byline, 2))
       ELSE last.result = Byline

C19_Witness ==
    /\ BylineTaken
    /\ Byline = <<"B","Y"," ","J","o"," ","R","o","e">>
    /\ last.result = <<"J","o"," ","R","o","e">>

---------------------------------------------------------------------------
(* C21: the first non-empty candidate of the newspapers' author chain *)

\* a byline without its leading "By" and the white space after it
WithoutBy(byl) ==
    IF /\ Len(byl) >= 3
       /\ ToLowerCase(SubSeq(byl, 1, 2)) = <<"b", "y">>
       /\ byl[3] \in WhiteSpace
    THEN TrimStart(Slice(byl, 2))
    ELSE byl

\* what each candidate of the chain [article:author, meta author, byline,
\* base rule] yields on the document, '' when its marker is not present
AuthorCandidates(exchange) ==
    LET Yield(key) ==
            LET found == {i \in DOMAIN exchange.markers :
                            /\ exchange.marking[i] = "present"
                            /\ \/ exchange.markers[i].kind = "meta"
                                  /\ exchange.markers[i].key = key
                               \/ exchange.markers[i].kind = "base" /\ key = "base"}
            IN  IF found = {} THEN <<>>
                ELSE exchange.markers[CHOOSE i \in found : TRUE].value
    IN  <<Yield("article:author"), Yield("author"), WithoutBy(Yield("byl")), Yield("base")>>

\* C21: in the newspapers' extractAuthors, whenever a candidate of the chain
\* yields a non-empty string the result is the first such string; a byline
\* that is empty after stripping falls through to the base rule
C21_AsStated ==
    (/\ last.type = "extract"
     /\ last.field = "authors"
     /\ last.extractor = "NewspapersMetadataExtractor")
    => LET candidates == AuthorCandidates(last)
           NotEmpty(c) == c # <<>>
           yielding == SelectSeq(candidates, NotEmpty)
       IN  yielding # <<>> => last.result = yielding[1]

---------------------------------------------------------------------------
(* The background script with two repositories to configure, and senders   *)
(* from the GitHub Pages site of each                                      *)

RepoB == <<"b","o","/","q","x">>
ReposWide == RepoValues \cup {RepoB}

UrlPagesB == JsString(SchemeHttps \o <<"b","o">> \o GitHubIo \o <<"/","q","x","/">>)
SenderUrlsWide == SenderUrls \cup {UrlPagesB}

InitRepos ==
    /\ sourceManager = initializeSources
    /\ githubToken \in TokenValues
    /\ githubRepo \in ReposWide
    /\ paperManager =
          IF githubToken # <<>> /\ githubRepo # <<>>
          THEN NewPaperManager(githubToken, githubRepo)
          ELSE Null
    /\ sessionService = NewSessionService(paperManager)
    /\ inflight = <<>>
    /\ last = NoExchange

ChangesWide ==
    {c \in [githubToken : {Undefined} \cup [newValue : TokenValues],
            githubRepo : {Undefined} \cup [newValue : ReposWide]] :
        /\ c.githubToken # Undefined \/ c.githubRepo # Undefined
        /\ c.githubToken # Undefined => c.githubToken.newValue # githubToken
        /\ c.githubRepo # Undefined => c.githubRepo.newValue # githubRepo}

StorageChangedWide == Ready /\ \E changes \in ChangesWide : onChanged(changes)

FrontendUpdateManualReadStatusWide ==
    /\ Ready
    /\ Len(inflight) < MaxInflight
    /\ \E paperKey \in {KeyBlank, KeyColon}, manuallyRead \in {Null, DateGood, DateBad},
          url \in SenderUrlsWide :
          handleFrontendUpdateManualReadStatus(
              [paperKey |-> paperKey, manuallyRead |-> manuallyRead], [url |-> url])

FrontendDeletePaperWide ==
    /\ Ready
    /\ Len(inflight) < MaxInflight
    /\ \E paperKey \in {KeyBlank, KeyColon}, url \in SenderUrlsWide :
          handleFrontendDeletePaper([paperKey |-> paperKey], [url |-> url])

NextRepos ==
    \/ StorageChangedWide
    \/ FrontendUpdateManualReadStatusWide
    \/ FrontendDeletePaperWide
    \/ StoreSettles
    \/ EndOfTurn

SpecRepos == InitRepos /\ [][NextRepos]_vars

---------------------------------------------------------------------------
(* C22: the trust check and the store client speak of the same repository *)

PagesUrlOf == RepoA :> UrlPagesA @@ RepoB :> UrlPagesB

\* the sender is the GitHub Pages site of the repository, or a local host
AllowedFor(repo, url) ==
    \/ url = UrlLocal
    \/ repo \in DOMAIN PagesUrlOf /\ url = PagesUrlOf[repo]

\* C22: every store request of a frontend handler goes through a client
\* whose repository is the one the trust check read, and the sender is
\* allowed for the repository of that client
C22_AsStated ==
    \A h \in Activations :
        h.type \in FrontendTypes
        => \A k \in DOMAIN h.reqs :
              /\ h.reqs[k].client.repo = h.repoSeen
              /\ AllowedFor(h.reqs[k].client.repo, h.url)

---------------------------------------------------------------------------
(* C23: the interaction log is archived only after the primary record *)

\* the requests of a complete delete of the key, in order: lookup, label
\* and closing of the primary record, then of its interaction log
ArchiveRequests(client, objectId) ==
    <<FindIssueRequest(client, objectId), AddLabelRequest(client, objectId),
      CloseIssueRequest(client, objectId)>>

DeleteRequests(h) ==
    LET paperKey == Trim(h.paperKey.v)
        interactionsKey == toInteractionObjectId(paperKey)
    IN  ArchiveRequests(h.client, JsString(paperKey))
        \o (IF interactionsKey # Null
            THEN ArchiveRequests(h.client, interactionsKey)
            ELSE <<>>)

\* the requests issued so far are the first ones of the complete delete, and
\* a request for the interaction log follows a successful primary archive
DeleteInOrder(h) ==
    h.reqs # <<>>
    => /\ Len(h.reqs) <= Len(DeleteRequests(h))
       /\ h.reqs = SubSeq(DeleteRequests(h), 1, Len(h.reqs))
       /\ Len(h.reqs) > 3 => h.archived

PrimaryDelete(i) ==
    /\ inflight[i].type = "frontendDeletePaper"
    /\ inflight[i].phase = "primary"

\* C23: a delete issues its requests in the order lookup, 'archived' label,
\* closing, for the primary record and only then for the interaction log;
\* when the lookup of the primary record finds no issue the answer is "Paper
\* not found in store", and when an await of the primary archive throws the
\* answer is a failure, in both cases without a request for the interaction
\* log
C23_LogAfterPrimary ==
    [][/\ \A h \in Activations' : h.type = "frontendDeletePaper" => DeleteInOrder(h)
       /\ \A i \in DOMAIN inflight :
             /\ (PrimaryDelete(i) /\ FindIssueSettles(i, "none"))
                   => /\ Answered(last', Failure("Paper not found in store"))
                      /\ last'.reqs = <<FindIssueRequest(last'.client,
                                                         JsString(Trim(last'.paperKey.v)))>>
             /\ (/\ PrimaryDelete(i)
                 /\ \/ FindIssueSettles(i, "throw")
                    \/ AddLabelSettles(i, "throw")
                    \/ CloseIssueSettles(i, "throw"))
                   => /\ Len(last'.responses) = 1
                      /\ ~last'.responses[1].success
                      /\ Len(last'.reqs) <= 3
                      /\ \A k \in DOMAIN last'.reqs :
                            last'.reqs[k].target = JsString(Trim(last'.paperKey.v))]_vars

C23_Witness ==
    /\ Completed
    /\ last.type = "frontendDeletePaper"
    /\ last.paperKey = KeyColon
    /\ Answered(last, Failure("Paper not found in store"))
    /\ Len(last.reqs) = 1

---------------------------------------------------------------------------
(* C24: what a manual read status update touches *)

ManualReadType == "frontendUpdateManualReadStatus"

\* the step starts a handler of the message, which is left at its await
StartsManualRead ==
    /\ Len(inflight') = Len(inflight) + 1
    /\ inflight'[Len(inflight')].type = ManualReadType

\* the step completes a handler of the message: rejected, or its await settled
CompletesManualRead == last'.type = ManualReadType

\* C24: a frontendUpdateManualReadStatus handler issues at most one store
\* request, an accepted one exactly one: updateObject on the trimmed paperKey
\* with the manuallyRead date, or null when the field is null or absent; the
\* steps of the handler leave the session, the cached metadata with its
\* ratings, the credentials, the paper manager and the other handlers as
\* they were
C24_OnlyManualRead ==
    [][/\ \A h \in Activations' :
             h.type = ManualReadType
             => /\ h.reqs # <<>>
                      => h.reqs =
                           <<Request("updateObject", JsString(Trim(h.paperKey.v)), h.client,
                                     IF h.manuallyRead \in {Undefined, Null}
                                     THEN Null ELSE h.manuallyRead)>>
                /\ (h.pc # "done" \/ Answered(h, Success)) => Len(h.reqs) = 1
       /\ StartsManualRead
             => /\ UNCHANGED <<sourceManager, githubToken, githubRepo, paperManager,
                               sessionService>>
                /\ SubSeq(inflight', 1, Len(inflight)) = inflight
       /\ CompletesManualRead
             => /\ UNCHANGED <<sourceManager, githubToken, githubRepo, paperManager,
                               sessionService>>
                /\ \/ inflight' = inflight
                   \/ \E i \in DOMAIN inflight :
                         /\ inflight[i].type = ManualReadType
                         /\ inflight' = Remove(inflight, i)]_vars

C24_Witness ==
    /\ Completed
    /\ last.type = ManualReadType
    /\ last.paperKey = KeyColon
    /\ last.manuallyRead = DateGood
    /\ Answered(last, Success)
    /\ Len(last.reqs) = 1
    /\ sessionService.session # Null
    /\ sessionService.metadata[sessionService.session] \in Ratings

---------------------------------------------------------------------------
(* C25: a credential change and the active session *)

\* the step is a storage change
CredentialChange == last'.type = "storageChanged"

\* the step receives an updateRating and answers it in the same turn
RatingAnsweredAtOnce == last'.type = "updateRating" /\ inflight' = inflight

\* C25: a credential change that leaves token and repo non-empty puts a
\* fresh session service in place, without session and without cached
\* metadata, and no end of session is processed; one that leaves token or
\* repo empty leaves the session service as it was.  While no session is
\* active getCurrentPaper answers null and, a paper manager being there,
\* updateRating answers "No current session"; only a startSession makes a
\* session active, and a paper manager once built stays
C25_FreshSessionService ==
    [][/\ CredentialChange
             => IF githubToken' # <<>> /\ githubRepo' # <<>>
                THEN /\ paperManager' = NewPaperManager(githubToken', githubRepo')
                     /\ sessionService'.session = Null
                     /\ \A p \in Papers : sessionService'.metadata[p] = Absent
                     /\ sessionService'.paperManager = paperManager'
                ELSE sessionService' = sessionService
       /\ (sessionService.session = Null /\ last'.type = "getCurrentPaper")
             => last'.responses = <<Null>>
       /\ (sessionService.session = Null /\ paperManager # Null /\ RatingAnsweredAtOnce)
             => /\ Answered(last', Failure("No current session"))
                /\ last'.reqs = <<>>
       /\ (sessionService.session = Null /\ sessionService'.session # Null)
             => last'.type = "startSession"
       /\ paperManager # Null => paperManager' # Null]_vars

\* a credential change has discarded the session in which a rating, still
\* on its way to the store, was given
C25_Witness ==
    /\ last.type = "storageChanged"
    /\ githubToken # <<>> /\ githubRepo # <<>>
    /\ sessionService = NewSessionService(paperManager)
    /\ \E i \in DOMAIN inflight :
          /\ inflight[i].type = "updateRating"
          /\ inflight[i].paper \in Papers

====
